---- MODULE Spec2Model ----
(***************************************************************************)
(* Mining Safety Dashboard: checklist lifecycle, overdue sweep, alert      *)
(* broadcast, incidents, statistics, safety score, analytics triggers and  *)
(* scheduled reports, modelled from the ChecklistService, the AlertService,*)
(* the IncidentService, the analytics routes and the Cloud Functions.      *)
(*                                                                         *)
(* A handler is modelled as the store calls it awaits, one action per      *)
(* call: the action is the call together with the code that runs until the *)
(* next await.  Between two calls of a handler the calls of other handlers *)
(* run; what a handler keeps between its calls is held in running (in      *)
(* inflight for acknowledgeAlert).                                         *)
(*                                                                         *)
(* Documents of a collection are kept in creation order; a document's id   *)
(* is its position (uuidv4 ids are fresh, so ids are never reused) and a   *)
(* deleted document leaves a tombstone with exists = FALSE.  The creation  *)
(* order of the alerts stands for their createdAt.  Dates are integers;    *)
(* free text (titles, descriptions, notes) and the updatedAt stamps are    *)
(* not tracked, apart from the count that the sweep's alert names in its   *)
(* title and message.                                                      *)
(***************************************************************************)
EXTENDS Integers, Sequences, FiniteSets

VARIABLES
    now,         \* the clock read by new Date()
    checklists,  \* the 'checklists' collection
    alerts,      \* the 'alerts' collection
    inflight,    \* acknowledge requests between their read and their write
    incidents,   \* the 'incidents' collection
    analytics,   \* the 'analytics' collection: one DailyStats document per date
    executed,    \* per date and counter, the trigger executions that incremented it
    reports,     \* the 'daily_reports' and 'weekly_summaries' collections
    running,     \* per handler, the invocations between two of their store calls
    last         \* the last store call of a handler and what it did (observation)

vars == <<now, checklists, alerts, inflight, incidents, analytics, executed, reports, running, last>>

----------------------------------------------------------------------------
(* Bounds of the model *)

MaxTime == 2
MaxChecklists == 2
MaxItems == 2
MaxAlerts == 2
MaxPosted == 1
MaxRequests == 2
MaxIncidents == 2
MaxPerSeverity == 4
MaxReports == 2
MaxCount == 2
MaxTotal == 40

(* undefined / null of an optional Date, and of an optional user id *)
NoDate == 0 - 1
NoUser == "none"
NoRequest == [pc |-> "idle", alertId |-> 0, userId |-> NoUser, acknowledgedBy |-> <<>>]

(* the clock ticks DayLength times a day *)
DayLength == 2
WeekLength == 7 * DayLength

Times == 0..MaxTime
(* date.toISOString().split('T')[0], and setHours(0, 0, 0, 0) *)
DayOf(t) == t \div DayLength
StartOfDay(t) == DayOf(t) * DayLength
Days == 0..DayOf(MaxTime)
(* a completedAt that the data given to createChecklist may carry *)
InputCompletedAt == {NoDate, 0}
DueDates == 1..MaxTime
ChecklistIds == 1..MaxChecklists
ItemIds == 1..MaxItems
AlertIds == 1..MaxPosted
IncidentIds == 1..MaxIncidents
Requests == 1..MaxRequests
Users == {"u1", "u2"}
(* the user ids acknowledgeAlert may be called with: a string, possibly empty *)
Actors == Users \cup {""}
Inspectors == {"u1"}

ChecklistStatus == {"pending", "in_progress", "completed", "overdue"}
IncidentSeverity == {"low", "medium", "high", "critical"}
IncidentStatus == {"reported", "investigating", "resolved", "closed"}
IncidentType ==
    {"near_miss", "injury", "equipment_damage", "environmental", "fire", "structural", "other"}
AlertPriority == {"info", "warning", "urgent", "emergency"}
AlertStatus == {"active", "acknowledged", "resolved"}

----------------------------------------------------------------------------
(* Helpers *)

RECURSIVE SeqCount(_, _, _)
SeqCount(s, i, acc) ==
    IF i > Len(s) THEN acc
    ELSE SeqCount(s, i + 1, IF s[i].isCompleted THEN acc + 1 ELSE acc)

(* checklist.items.filter(item => item.isCompleted).length *)
completedCount(items) == SeqCount(items, 1, 0)

NoFilters == [priority |-> "", section |-> "", role |-> ""]

(* the observation of a store call: the step of the handler, the document
   and the user the handler was called with, whether the handler goes on or
   returns a result (ok) or returns null, false or an error, the clock the
   handler read (at), and what the call was seen to do *)
NoObs ==
    [op |-> "init", id |-> 0, userId |-> NoUser, ok |-> TRUE, at |-> 0 - 1,
     changed |-> {}, made |-> 0, prev |-> 0 - 1, before |-> <<>>,
     filters |-> NoFilters, result |-> <<>>]

(* a DailyStats document without any counter yet *)
DailyStatsFields == {"incidentsReported", "incidentsResolved", "checklistsCompleted"}
NoStats == [f \in DailyStatsFields |-> 0]

(* the 'daily_reports' and 'weekly_summaries' collections, empty *)
NoReports == [daily_reports |-> <<>>, weekly_summaries |-> <<>>]

(* a Partial<Incident> without any field *)
NoData == [f \in {} |-> 0]

(* the invocations of the handlers that await more than one store call,
   before their first call *)
NoUpdate ==
    [pc |-> "idle", checklistId |-> 0, itemId |-> 0,
     items |-> <<>>, status |-> "pending", completedAt |-> 0 - 1, at |-> 0 - 1]
NoSweep == [pc |-> "idle", matched |-> {}]
NoDelete == [pc |-> "idle", id |-> 0]
NoStatusUpdate == [pc |-> "idle", id |-> 0, status |-> "active"]
NoIncidentUpdate == [pc |-> "idle", id |-> 0, data |-> NoData]
NoTrigger == [pc |-> "idle", createdAt |-> 0 - 1]
NoDaily == [pc |-> "idle", yesterday |-> 0, today |-> 0, incidentsReported |-> 0, report |-> <<>>]
NoWeekly == [pc |-> "idle", weekAgo |-> 0, totalIncidents |-> 0, summary |-> <<>>]
NoRunning ==
    [update |-> [r \in 1..MaxRequests |-> NoUpdate],
     sweep |-> NoSweep,
     deleteChecklist |-> [r \in 1..MaxRequests |-> NoDelete],
     updateAlertStatus |-> [r \in 1..MaxRequests |-> NoStatusUpdate],
     deleteAlert |-> [r \in 1..MaxRequests |-> NoDelete],
     updateIncident |-> [r \in 1..MaxRequests |-> NoIncidentUpdate],
     deleteIncident |-> [r \in 1..MaxRequests |-> NoDelete],
     onIncidentCreated |-> [r \in 1..MaxRequests |-> NoTrigger],
     generateDailyReport |-> NoDaily,
     generateWeeklySummary |-> NoWeekly]

Did(op, id, ok) == [NoObs EXCEPT !.op = op, !.id = id, !.ok = ok]

----------------------------------------------------------------------------
(* ChecklistService *)

DeletedChecklist ==
    [exists |-> FALSE, items |-> <<>>, status |-> "pending", category |-> "",
     dueDate |-> NoDate, completedAt |-> NoDate, createdAt |-> NoDate]

(* getChecklistById: the document, if it exists *)
ChecklistExists(id) ==
    /\ id \in 1..Len(checklists)
    /\ checklists[id].exists

NewItem == [isCompleted |-> FALSE, completedAt |-> NoDate, completedBy |-> NoUser]

(* an item as the data given to createChecklist may carry it *)
InputItems == {NewItem, [isCompleted |-> TRUE, completedAt |-> 0, completedBy |-> "u1"]}

(* the document built from data with the completion flags and the status
   of the input kept *)
NewChecklist_KeepInput(data) ==
    [exists |-> TRUE,
     items |-> data.items,
     status |-> data.status,
     category |-> data.category,
     dueDate |-> data.dueDate,
     completedAt |-> data.completedAt,
     createdAt |-> now]

(* the document createChecklist builds: the fields of data are spread into
   it, every item is spread and gets isCompleted false, status is pending
   and createdAt is the clock *)
NewChecklist(data) ==
    [exists |-> TRUE,
     items |-> [i \in 1..Len(data.items) |-> [data.items[i] EXCEPT !.isCompleted = FALSE]],
     status |-> "pending",
     category |-> data.category,
     dueDate |-> data.dueDate,
     completedAt |-> data.completedAt,
     createdAt |-> now]

(* createChecklist with data of n items that carry no completion, a
   dueDate, a category and the optional completedAt that the type of data
   admits: one set() of the new document *)
createChecklist(n, due, category, completedAt) ==
    /\ Len(checklists) < MaxChecklists
    /\ checklists' = Append(checklists,
           NewChecklist([items |-> [i \in 1..n |-> NewItem],
                         status |-> "pending",
                         category |-> category,
                         dueDate |-> due,
                         completedAt |-> completedAt]))
    /\ last' = Did("create", Len(checklists) + 1, TRUE)
    /\ UNCHANGED <<now, alerts, inflight, incidents, analytics, executed, reports, running>>

(* POST /: createChecklist({...req.body, dueDate: new Date(req.body.dueDate)}),
   whatever status and item flags the body carries *)
postChecklist(body) ==
    /\ Len(checklists) < MaxChecklists
    /\ checklists' = Append(checklists, NewChecklist(body))
    /\ last' = [Did("create", Len(checklists) + 1, TRUE) EXCEPT !.before = <<body>>]
    /\ UNCHANGED <<now, alerts, inflight, incidents, analytics, executed, reports, running>>

(* the item after the patch is merged into it *)
PatchItem(item, patch, userId) ==
    [isCompleted |-> IF patch = "notes" THEN item.isCompleted ELSE patch = "complete",
     completedAt |-> IF patch = "complete" THEN now ELSE NoDate,
     completedBy |-> IF patch = "complete" THEN userId ELSE NoUser]

(* A Date of the running code: a valid instant, or Invalid Date *)
ValidDate(time) == [valid |-> TRUE, time |-> time]

InvalidDate == [valid |-> FALSE, time |-> NoDate]

(* new Date() *)
CurrentDate == ValidDate(now)

(* new Date(value) of a date field read back from the store.  The routes
   hand the services Date objects, the store keeps them as Timestamps and
   doc.data() returns them as Timestamp objects, unconverted (the services
   cast doc.data() and never call toDate).  The primitive value of a
   Timestamp is a padded string that Date cannot parse, so whatever the
   stored instant the result is Invalid Date. *)
NewDate(timestamp) == InvalidDate

(* a > b on two Dates: a comparison of their time values, false as soon as
   one of them is NaN *)
GreaterThan(a, b) == a.valid /\ b.valid /\ a.time > b.time

(* "Calculate new status" *)
newStatus(items, dueDate) ==
    IF completedCount(items) = Len(items) THEN "completed"
    ELSE IF completedCount(items) > 0 THEN "in_progress"
    ELSE IF GreaterThan(CurrentDate, NewDate(dueDate)) THEN "overdue"
    ELSE "pending"

updateRead_NoItemCheck(r, checklistId, itemId, patch, userId) ==
    /\ running.update[r].pc = "idle"
    /\ IF ~ChecklistExists(checklistId)
       THEN UNCHANGED running
       ELSE LET checklist == checklists[checklistId]
                items == IF itemId > Len(checklist.items) THEN checklist.items
                         ELSE [checklist.items EXCEPT ![itemId] = PatchItem(@, patch, userId)]
                status == newStatus(items, checklist.dueDate)
            IN  running' = [running EXCEPT !.update[r] =
                    [pc |-> "write", checklistId |-> checklistId, itemId |-> itemId,
                     items |-> items, status |-> status,
                     completedAt |-> IF status = "completed" THEN now ELSE NoDate,
                     at |-> now]]
    /\ last' = [Did("updateRead", checklistId, ChecklistExists(checklistId)) EXCEPT
                   !.userId = userId,
                   !.at = now,
                   !.before = <<[itemId |-> itemId, patch |-> patch]>>]
    /\ UNCHANGED <<now, checklists, alerts, inflight, incidents, analytics, executed, reports>>

(* updateChecklistItem, first store call: getChecklistById, and the code up
   to the update: null when the checklist or the item is missing, else the
   items array with the patched item, the status and completedAt, all from
   the document read and the clock.  before holds the call's arguments. *)
updateRead(r, checklistId, itemId, patch, userId) ==
    /\ running.update[r].pc = "idle"
    /\ IF ~ChecklistExists(checklistId) \/ itemId > Len(checklists[checklistId].items)
       THEN UNCHANGED running
       ELSE LET checklist == checklists[checklistId]
                items == [checklist.items EXCEPT ![itemId] = PatchItem(@, patch, userId)]
                status == newStatus(items, checklist.dueDate)
            IN  running' = [running EXCEPT !.update[r] =
                    [pc |-> "write", checklistId |-> checklistId, itemId |-> itemId,
                     items |-> items, status |-> status,
                     completedAt |-> IF status = "completed" THEN now ELSE NoDate,
                     at |-> now]]
    /\ last' = [Did("updateRead", checklistId,
                    ChecklistExists(checklistId) /\ itemId <= Len(checklists[checklistId].items)) EXCEPT
                   !.userId = userId,
                   !.at = now,
                   !.before = <<[itemId |-> itemId, patch |-> patch]>>]
    /\ UNCHANGED <<now, checklists, alerts, inflight, incidents, analytics, executed, reports>>

updateWrite_MergeItem(r) ==
    LET request == running.update[r]
        id == request.checklistId
    IN  /\ request.pc = "write"
        /\ checklists' = IF ChecklistExists(id)
                         THEN [checklists EXCEPT ![id] =
                                 [@ EXCEPT !.items = [@ EXCEPT ![request.itemId] = request.items[request.itemId]],
                                           !.status = request.status,
                                           !.completedAt = request.completedAt]]
                         ELSE checklists
        /\ running' = [running EXCEPT !.update[r] =
                          IF ChecklistExists(id) THEN [NoUpdate EXCEPT !.pc = "return", !.checklistId = id]
                          ELSE NoUpdate]
        /\ last' = [Did("updateWrite", id, ChecklistExists(id)) EXCEPT
                       !.at = request.at,
                       !.prev = request.itemId,
                       !.before = IF ChecklistExists(id) THEN checklists[id].items ELSE <<>>]
        /\ UNCHANGED <<now, alerts, inflight, incidents, analytics, executed, reports>>

updateWrite_Notify(r) ==
    LET request == running.update[r]
        id == request.checklistId
        notify == ChecklistExists(id) /\ request.status = "completed"
    IN  /\ request.pc = "write"
        /\ notify => Len(alerts) < MaxAlerts
        /\ checklists' = IF ChecklistExists(id)
                         THEN [checklists EXCEPT ![id] =
                                 [@ EXCEPT !.items = request.items,
                                           !.status = request.status,
                                           !.completedAt = request.completedAt]]
                         ELSE checklists
        /\ alerts' = IF notify
                     THEN Append(alerts,
                            [exists |-> TRUE, count |-> 1, priority |-> "info",
                             status |-> "active", targetSections |-> {"all"},
                             targetRoles |-> {"admin", "supervisor"},
                             createdBy |-> "system", acknowledgedBy |-> <<>>,
                             expiresAt |-> NoDate])
                     ELSE alerts
        /\ running' = [running EXCEPT !.update[r] =
                          IF ChecklistExists(id) THEN [NoUpdate EXCEPT !.pc = "return", !.checklistId = id]
                          ELSE NoUpdate]
        /\ last' = [Did("updateWrite", id, ChecklistExists(id)) EXCEPT
                       !.at = request.at,
                       !.prev = request.itemId,
                       !.before = IF ChecklistExists(id) THEN checklists[id].items ELSE <<>>]
        /\ UNCHANGED <<now, inflight, incidents, analytics, executed, reports>>

(* updateChecklistItem, second store call: update() of the document with
   the items array, status and completedAt computed after the read; the
   update of a document that was deleted since is rejected by the store and
   the call ends with that error.  before holds the items that were stored
   when the write arrived, prev the item the call was made for, at the
   clock the call read. *)
updateWrite(r) ==
    LET request == running.update[r]
        id == request.checklistId
    IN  /\ request.pc = "write"
        /\ checklists' = IF ChecklistExists(id)
                         THEN [checklists EXCEPT ![id] =
                                 [@ EXCEPT !.items = request.items,
                                           !.status = request.status,
                                           !.completedAt = request.completedAt]]
                         ELSE checklists
        /\ running' = [running EXCEPT !.update[r] =
                          IF ChecklistExists(id) THEN [NoUpdate EXCEPT !.pc = "return", !.checklistId = id]
                          ELSE NoUpdate]
        /\ last' = [Did("updateWrite", id, ChecklistExists(id)) EXCEPT
                       !.at = request.at,
                       !.prev = request.itemId,
                       !.before = IF ChecklistExists(id) THEN checklists[id].items ELSE <<>>]
        /\ UNCHANGED <<now, alerts, inflight, incidents, analytics, executed, reports>>

(* updateChecklistItem, third store call: return this.getChecklistById,
   the document as it is stored by then, or null *)
updateReturn(r) ==
    LET id == running.update[r].checklistId
    IN  /\ running.update[r].pc = "return"
        /\ running' = [running EXCEPT !.update[r] = NoUpdate]
        /\ last' = [Did("updateReturn", id, ChecklistExists(id)) EXCEPT
                       !.result = IF ChecklistExists(id) THEN <<checklists[id]>> ELSE <<>>]
        /\ UNCHANGED <<now, checklists, alerts, inflight, incidents, analytics, executed, reports>>

(* deleteChecklist, first store call: get(); false when the document does
   not exist *)
deleteChecklistRead(r, id) ==
    /\ running.deleteChecklist[r].pc = "idle"
    /\ running' = IF ChecklistExists(id)
                  THEN [running EXCEPT !.deleteChecklist[r] = [pc |-> "delete", id |-> id]]
                  ELSE running
    /\ last' = Did("deleteChecklistRead", id, ChecklistExists(id))
    /\ UNCHANGED <<now, checklists, alerts, inflight, incidents, analytics, executed, reports>>

(* deleteChecklist, second store call: delete(), which succeeds whether or
   not the document is still there; true *)
deleteChecklistWrite(r) ==
    LET id == running.deleteChecklist[r].id
    IN  /\ running.deleteChecklist[r].pc = "delete"
        /\ checklists' = [checklists EXCEPT ![id] = DeletedChecklist]
        /\ running' = [running EXCEPT !.deleteChecklist[r] = NoDelete]
        /\ last' = Did("deleteChecklistWrite", id, TRUE)
        /\ UNCHANGED <<now, alerts, inflight, incidents, analytics, executed, reports>>

----------------------------------------------------------------------------
(* Cloud Functions: the hourly overdue sweep *)

(* the document added by the functions' createAlert helper; count is the
   number its title and message name *)
createAlert(count, priority, targetSections, targetRoles) ==
    [exists |-> TRUE,
     count |-> count,
     priority |-> priority,
     status |-> "active",
     targetSections |-> targetSections,
     targetRoles |-> targetRoles,
     createdBy |-> "system",
     acknowledgedBy |-> <<>>,
     expiresAt |-> NoDate]

OverdueQuery_AnyOpenStatus ==
    {id \in 1..Len(checklists) :
        /\ checklists[id].exists
        /\ checklists[id].status # "completed"
        /\ checklists[id].dueDate < now}

OverdueQuery_DueNow ==
    {id \in 1..Len(checklists) :
        /\ checklists[id].exists
        /\ checklists[id].status \in {"pending", "in_progress"}
        /\ checklists[id].dueDate <= now}

OverdueQuery_StartedOnly ==
    {id \in 1..Len(checklists) :
        /\ checklists[id].exists
        /\ checklists[id].status = "in_progress"
        /\ checklists[id].dueDate < now}

(* where status in [pending, in_progress] and dueDate < now *)
OverdueQuery ==
    {id \in 1..Len(checklists) :
        /\ checklists[id].exists
        /\ checklists[id].status \in {"pending", "in_progress"}
        /\ checklists[id].dueDate < now}

BatchCommit_FirstOnly(matched) ==
    [id \in 1..Len(checklists) |->
        IF id \in matched /\ (\A other \in matched : id <= other)
        THEN [checklists[id] EXCEPT !.status = "overdue"]
        ELSE checklists[id]]

(* batch.update(doc.ref, {status: 'overdue'}) for every matched document *)
BatchCommit(matched) ==
    [id \in 1..Len(checklists) |->
        IF id \in matched THEN [checklists[id] EXCEPT !.status = "overdue"]
        ELSE checklists[id]]

StatusChanged == {id \in 1..Len(checklists) : checklists'[id].status # checklists[id].status}

(* what the run that ended with the last store call left, when the next run
   starts right after it: nothing after a run that went through, what it
   changed and made after a run in which a store call failed *)
RunBefore ==
    IF last.op \in {"sweepCommit", "sweepAlert"} /\ ~last.ok /\ last.prev = 1
    THEN <<[changed |-> last.changed, made |-> last.made]>>
    ELSE <<>>

(* checkOverdueChecklists, first store call: the clock is read and the
   query runs; with no document matched the run ends.  prev is 2 when the
   run starts right after a run that committed and alerted with no other
   store call in between, 1 right after a run that matched nothing; before
   holds what a failed run left (RunBefore). *)
sweepQuery ==
    /\ running.sweep.pc = "idle"
    /\ OverdueQuery # {} => Len(alerts) < MaxAlerts
    /\ running' = IF OverdueQuery # {}
                  THEN [running EXCEPT !.sweep = [pc |-> "commit", matched |-> OverdueQuery]]
                  ELSE running
    /\ last' = [Did("sweepQuery", 0, TRUE) EXCEPT
                   !.at = now,
                   !.prev = IF last.op = "sweepAlert" /\ last.ok /\ last.prev = 1 THEN 2
                            ELSE IF last.op = "sweepQuery" THEN 1
                            ELSE 0 - 1,
                   !.before = RunBefore]
    /\ UNCHANGED <<now, checklists, alerts, inflight, incidents, analytics, executed, reports>>

(* checkOverdueChecklists, second store call: batch.commit(), which writes
   every update of the batch or, when the store fails the call (fail) or a
   matched document was deleted since the query, none; the catch logs the
   error and the run ends.  changed holds the documents whose status the
   commit changed, prev is 1 when no other store call ran since the query. *)
sweepCommit(fail) ==
    LET matched == running.sweep.matched
        ok == ~fail /\ \A id \in matched : ChecklistExists(id)
    IN  /\ running.sweep.pc = "commit"
        /\ checklists' = IF ok THEN BatchCommit(matched) ELSE checklists
        /\ running' = [running EXCEPT !.sweep = IF ok THEN [pc |-> "alert", matched |-> matched]
                                                ELSE NoSweep]
        /\ last' = [Did("sweepCommit", 0, ok) EXCEPT
                       !.changed = StatusChanged,
                       !.prev = IF last.op = "sweepQuery" THEN 1 ELSE 0 - 1,
                       !.before = IF last.op = "sweepQuery" THEN last.before ELSE <<>>]
        /\ UNCHANGED <<now, alerts, inflight, incidents, analytics, executed, reports>>

(* checkOverdueChecklists, third store call: createAlert, which names
   overdueCount, the number of documents the query returned; when the store
   fails the call the catch logs the error and the run ends.  changed holds
   the documents the run's commit wrote, prev is 1 when no other store call
   ran since the query. *)
sweepAlert(fail) ==
    LET matched == running.sweep.matched
        overdueCount == Cardinality(matched)
    IN  /\ running.sweep.pc = "alert"
        /\ ~fail => Len(alerts) < MaxAlerts
        /\ alerts' = IF fail THEN alerts
                     ELSE Append(alerts, createAlert(overdueCount, "warning", {"all"}, {"admin", "supervisor"}))
        /\ running' = [running EXCEPT !.sweep = NoSweep]
        /\ last' = [Did("sweepAlert", 0, ~fail) EXCEPT
                       !.changed = matched,
                       !.made = IF fail THEN 0 ELSE 1,
                       !.prev = IF last.op = "sweepCommit" /\ last.prev = 1 THEN 1 ELSE 0 - 1,
                       !.before = IF last.op = "sweepCommit" /\ last.prev = 1 THEN last.before ELSE <<>>]
        /\ UNCHANGED <<now, checklists, inflight, incidents, analytics, executed, reports>>

----------------------------------------------------------------------------
(* AlertService *)

DeletedAlert ==
    [exists |-> FALSE, count |-> 0, priority |-> "info", status |-> "resolved",
     targetSections |-> {}, targetRoles |-> {}, createdBy |-> NoUser,
     acknowledgedBy |-> <<>>, expiresAt |-> NoDate]

(* getAlertById: the document, if it exists *)
AlertExists(id) ==
    /\ id \in 1..Len(alerts)
    /\ alerts[id].exists

Range(s) == {s[i] : i \in 1..Len(s)}

(* AlertService.createAlert, as the POST / route calls it: status active,
   acknowledgedBy empty; one set() of the new document *)
AlertService_createAlert(priority, targetSections, targetRoles, expiresAt, createdBy) ==
    /\ Len(alerts) < MaxAlerts
    /\ alerts' = Append(alerts,
           [exists |-> TRUE,
            count |-> 0,
            priority |-> priority,
            status |-> "active",
            targetSections |-> targetSections,
            targetRoles |-> targetRoles,
            createdBy |-> createdBy,
            acknowledgedBy |-> <<>>,
            expiresAt |-> expiresAt])
    /\ last' = [Did("createAlert", Len(alerts) + 1, TRUE) EXCEPT !.userId = createdBy]
    /\ UNCHANGED <<now, checklists, inflight, incidents, analytics, executed, reports, running>>

createEmergencyAlert(createdBy) ==
    /\ Len(alerts) < MaxPosted
    /\ AlertService_createAlert("emergency", {"all"}, {"all"}, NoDate, createdBy)

(* alert.targetSections.includes(filters.section) ||
   alert.targetSections.includes('all'), and the same for roles *)
MatchesTarget(targets, requested) == requested \in targets \/ "all" \in targets

NotExpired_NoFilter(alert) == TRUE

(* !alert.expiresAt || new Date(alert.expiresAt) > now, where now is
   new Date() and alert.expiresAt, when the alert has one, is the Timestamp
   the store returns *)
NotExpired(alert) ==
    alert.expiresAt = NoDate \/ GreaterThan(NewDate(alert.expiresAt), CurrentDate)

(* the ids of the alerts getActiveAlerts returns *)
ActiveAlerts(filters) ==
    {id \in 1..Len(alerts) :
        /\ alerts[id].exists
        /\ alerts[id].status = "active"
        /\ filters.priority # "" => alerts[id].priority = filters.priority
        /\ filters.section # "" => MatchesTarget(alerts[id].targetSections, filters.section)
        /\ filters.role # "" => MatchesTarget(alerts[id].targetRoles, filters.role)
        /\ NotExpired(alerts[id])}

(* one query, filtered in memory.  result holds the set of the alerts
   returned.  The query returns them by createdAt, the latest first, and
   alerts of one createdAt by document id, which is the random uuidv4 of
   createAlert: their order follows from no stored field, and the listing
   is taken as a set. *)
getActiveAlerts(filters) ==
    /\ last' = [Did("list", 0, TRUE) EXCEPT
                    !.filters = filters,
                    !.result = <<ActiveAlerts(filters)>>]
    /\ UNCHANGED <<now, checklists, alerts, inflight, incidents, analytics, executed, reports, running>>

acknowledgeRead_Push(r, alertId, userId) ==
    /\ inflight[r].pc = "idle"
    /\ inflight' = IF AlertExists(alertId)
                   THEN [inflight EXCEPT ![r] =
                            [pc |-> "write", alertId |-> alertId, userId |-> userId,
                             acknowledgedBy |-> Append(alerts[alertId].acknowledgedBy, userId)]]
                   ELSE inflight
    /\ last' = [Did("acknowledgeRead", alertId, AlertExists(alertId)) EXCEPT
                    !.userId = userId,
                    !.before = IF AlertExists(alertId) THEN alerts[alertId].acknowledgedBy ELSE <<>>,
                    !.prev = IF last.op = "acknowledgeWrite" /\ last.ok
                                /\ last.id = alertId /\ last.userId = userId
                             THEN 1 ELSE 0 - 1]
    /\ UNCHANGED <<now, checklists, alerts, incidents, analytics, executed, reports, running>>

(* acknowledgeAlert, first store call: getAlertById; null when the alert
   does not exist, the alert as read when userId is in its acknowledgedBy,
   else the array with userId pushed is kept for the write.  before holds
   acknowledgedBy as read, prev is 1 when the call repeats the call that
   ended with the store call just before. *)
acknowledgeRead(r, alertId, userId) ==
    /\ inflight[r].pc = "idle"
    /\ inflight' = IF AlertExists(alertId) /\ userId \notin Range(alerts[alertId].acknowledgedBy)
                   THEN [inflight EXCEPT ![r] =
                            [pc |-> "write", alertId |-> alertId, userId |-> userId,
                             acknowledgedBy |-> Append(alerts[alertId].acknowledgedBy, userId)]]
                   ELSE inflight
    /\ last' = [Did("acknowledgeRead", alertId, AlertExists(alertId)) EXCEPT
                    !.userId = userId,
                    !.before = IF AlertExists(alertId) THEN alerts[alertId].acknowledgedBy ELSE <<>>,
                    !.prev = IF last.op = "acknowledgeWrite" /\ last.ok
                                /\ last.id = alertId /\ last.userId = userId
                             THEN 1 ELSE 0 - 1]
    /\ UNCHANGED <<now, checklists, alerts, incidents, analytics, executed, reports, running>>

(* acknowledgeAlert, second store call: update() of the whole
   acknowledgedBy array; rejected when the alert was deleted since the
   read *)
acknowledgeWrite(r) ==
    /\ inflight[r].pc = "write"
    /\ alerts' = IF AlertExists(inflight[r].alertId)
                 THEN [alerts EXCEPT ![inflight[r].alertId].acknowledgedBy = inflight[r].acknowledgedBy]
                 ELSE alerts
    /\ inflight' = [inflight EXCEPT ![r] = NoRequest]
    /\ last' = [Did("acknowledgeWrite", inflight[r].alertId, AlertExists(inflight[r].alertId)) EXCEPT
                    !.userId = inflight[r].userId]
    /\ UNCHANGED <<now, checklists, incidents, analytics, executed, reports, running>>

(* updateAlertStatus, first store call: get(); null when the alert does not
   exist *)
updateAlertStatusRead(r, id, status) ==
    /\ running.updateAlertStatus[r].pc = "idle"
    /\ running' = IF AlertExists(id)
                  THEN [running EXCEPT !.updateAlertStatus[r] =
                           [pc |-> "write", id |-> id, status |-> status]]
                  ELSE running
    /\ last' = Did("updateAlertStatusRead", id, AlertExists(id))
    /\ UNCHANGED <<now, checklists, alerts, inflight, incidents, analytics, executed, reports>>

(* updateAlertStatus, second store call: update({status}); rejected when
   the alert was deleted since the read *)
updateAlertStatusWrite(r) ==
    LET request == running.updateAlertStatus[r]
    IN  /\ request.pc = "write"
        /\ alerts' = IF AlertExists(request.id)
                     THEN [alerts EXCEPT ![request.id].status = request.status]
                     ELSE alerts
        /\ running' = [running EXCEPT !.updateAlertStatus[r] =
                          IF AlertExists(request.id) THEN [NoStatusUpdate EXCEPT !.pc = "return", !.id = request.id]
                          ELSE NoStatusUpdate]
        /\ last' = Did("updateAlertStatusWrite", request.id, AlertExists(request.id))
        /\ UNCHANGED <<now, checklists, inflight, incidents, analytics, executed, reports>>

(* updateAlertStatus, third store call: return this.getAlertById, the alert
   as it is stored by then, or null *)
updateAlertStatusReturn(r) ==
    LET id == running.updateAlertStatus[r].id
    IN  /\ running.updateAlertStatus[r].pc = "return"
        /\ running' = [running EXCEPT !.updateAlertStatus[r] = NoStatusUpdate]
        /\ last' = [Did("updateAlertStatusReturn", id, AlertExists(id)) EXCEPT
                       !.result = IF AlertExists(id) THEN <<alerts[id]>> ELSE <<>>]
        /\ UNCHANGED <<now, checklists, alerts, inflight, incidents, analytics, executed, reports>>

(* deleteAlert, first store call: get(); false when the alert does not
   exist *)
deleteAlertRead(r, id) ==
    /\ running.deleteAlert[r].pc = "idle"
    /\ running' = IF AlertExists(id)
                  THEN [running EXCEPT !.deleteAlert[r] = [pc |-> "delete", id |-> id]]
                  ELSE running
    /\ last' = Did("deleteAlertRead", id, AlertExists(id))
    /\ UNCHANGED <<now, checklists, alerts, inflight, incidents, analytics, executed, reports>>

(* deleteAlert, second store call: delete(), which succeeds whether or not
   the alert is still there; true *)
deleteAlertWrite(r) ==
    LET id == running.deleteAlert[r].id
    IN  /\ running.deleteAlert[r].pc = "delete"
        /\ alerts' = [alerts EXCEPT ![id] = DeletedAlert]
        /\ running' = [running EXCEPT !.deleteAlert[r] = NoDelete]
        /\ last' = Did("deleteAlertWrite", id, TRUE)
        /\ UNCHANGED <<now, checklists, inflight, incidents, analytics, executed, reports>>

----------------------------------------------------------------------------
(* IncidentService *)

DeletedIncident ==
    [exists |-> FALSE, type |-> "other", severity |-> "low", status |-> "closed",
     createdAt |-> NoDate, resolvedAt |-> NoDate]

(* getIncidentById: the document, if it exists *)
IncidentExists(id) ==
    /\ id \in 1..Len(incidents)
    /\ incidents[id].exists

(* createIncident: the fields of data are spread into the document, a
   resolvedAt of data included, and createdAt is the clock; one set() *)
createIncident(data) ==
    /\ Len(incidents) < MaxIncidents
    /\ incidents' = Append(incidents,
           [exists |-> TRUE,
            type |-> data.type,
            severity |-> data.severity,
            status |-> data.status,
            createdAt |-> now,
            resolvedAt |-> IF "resolvedAt" \in DOMAIN data THEN data.resolvedAt ELSE NoDate])
    /\ last' = Did("createIncident", Len(incidents) + 1, TRUE)
    /\ UNCHANGED <<now, checklists, alerts, inflight, analytics, executed, reports, running>>

(* docRef.update(updateData): the fields of data replace those of the
   document, the other fields stay *)
MergeFields(doc, data) ==
    [f \in DOMAIN doc |-> IF f \in DOMAIN data THEN data[f] ELSE doc[f]]

(* updateIncident, first store call: get(); null when the incident does not
   exist, else updateData is kept for the write *)
updateIncidentRead(r, id, data) ==
    /\ running.updateIncident[r].pc = "idle"
    /\ running' = IF IncidentExists(id)
                  THEN [running EXCEPT !.updateIncident[r] = [pc |-> "write", id |-> id, data |-> data]]
                  ELSE running
    /\ last' = [Did("updateIncidentRead", id, IncidentExists(id)) EXCEPT !.at = now]
    /\ UNCHANGED <<now, checklists, alerts, inflight, incidents, analytics, executed, reports>>

(* updateIncidentStatus: updateData is built with the status and, when the
   status is resolved, resolvedAt from the clock, and handed to
   updateIncident, whose first store call follows *)
updateIncidentStatus(r, id, status, userId) ==
    LET updateData == IF status = "resolved"
                      THEN [status |-> status, resolvedAt |-> now]
                      ELSE [status |-> status]
    IN  updateIncidentRead(r, id, updateData)

(* updateIncident, second store call: docRef.update(updateData); rejected
   when the incident was deleted since the read *)
updateIncidentWrite(r) ==
    LET request == running.updateIncident[r]
    IN  /\ request.pc = "write"
        /\ incidents' = IF IncidentExists(request.id)
                        THEN [incidents EXCEPT ![request.id] = MergeFields(@, request.data)]
                        ELSE incidents
        /\ running' = [running EXCEPT !.updateIncident[r] =
                          IF IncidentExists(request.id)
                          THEN [NoIncidentUpdate EXCEPT !.pc = "return", !.id = request.id]
                          ELSE NoIncidentUpdate]
        /\ last' = Did("updateIncidentWrite", request.id, IncidentExists(request.id))
        /\ UNCHANGED <<now, checklists, alerts, inflight, analytics, executed, reports>>

(* updateIncident, third store call: return this.getIncidentById, the
   incident as it is stored by then, or null *)
updateIncidentReturn(r) ==
    LET id == running.updateIncident[r].id
    IN  /\ running.updateIncident[r].pc = "return"
        /\ running' = [running EXCEPT !.updateIncident[r] = NoIncidentUpdate]
        /\ last' = [Did("updateIncidentReturn", id, IncidentExists(id)) EXCEPT
                       !.result = IF IncidentExists(id) THEN <<incidents[id]>> ELSE <<>>]
        /\ UNCHANGED <<now, checklists, alerts, inflight, incidents, analytics, executed, reports>>

(* deleteIncident, first store call: get(); false when the incident does
   not exist *)
deleteIncidentRead(r, id) ==
    /\ running.deleteIncident[r].pc = "idle"
    /\ running' = IF IncidentExists(id)
                  THEN [running EXCEPT !.deleteIncident[r] = [pc |-> "delete", id |-> id]]
                  ELSE running
    /\ last' = Did("deleteIncidentRead", id, IncidentExists(id))
    /\ UNCHANGED <<now, checklists, alerts, inflight, incidents, analytics, executed, reports>>

(* deleteIncident, second store call: delete(), which succeeds whether or
   not the incident is still there; true *)
deleteIncidentWrite(r) ==
    LET id == running.deleteIncident[r].id
    IN  /\ running.deleteIncident[r].pc = "delete"
        /\ incidents' = [incidents EXCEPT ![id] = DeletedIncident]
        /\ running' = [running EXCEPT !.deleteIncident[r] = NoDelete]
        /\ last' = Did("deleteIncidentWrite", id, TRUE)
        /\ UNCHANGED <<now, checklists, alerts, inflight, analytics, executed, reports>>

IncidentsCreatedIn_OpenEnd(startDate, endDate) ==
    {id \in 1..Len(incidents) :
        /\ incidents[id].exists
        /\ incidents[id].createdAt >= startDate
        /\ incidents[id].createdAt < endDate}

(* where createdAt >= startDate and createdAt <= endDate *)
IncidentsCreatedIn(startDate, endDate) ==
    {id \in 1..Len(incidents) :
        /\ incidents[id].exists
        /\ incidents[id].createdAt >= startDate
        /\ incidents[id].createdAt <= endDate}

(* every value of the three enumerations starts at 0 and is counted up
   once per incident that carries it *)
IncidentStats(startDate, endDate) ==
    LET docs == IncidentsCreatedIn(startDate, endDate)
    IN  [total |-> Cardinality(docs),
         bySeverity |-> [v \in IncidentSeverity |->
                            Cardinality({id \in docs : incidents[id].severity = v})],
         byStatus |-> [v \in IncidentStatus |->
                            Cardinality({id \in docs : incidents[id].status = v})],
         byType |-> [v \in IncidentType |->
                            Cardinality({id \in docs : incidents[id].type = v})]]

(* one query, tallied in memory *)
getIncidentStats(startDate, endDate) ==
    /\ last' = [Did("getIncidentStats", 0, TRUE) EXCEPT
                    !.before = <<[startDate |-> startDate, endDate |-> endDate]>>,
                    !.result = <<IncidentStats(startDate, endDate)>>]
    /\ UNCHANGED <<now, checklists, alerts, inflight, incidents, analytics, executed, reports, running>>

----------------------------------------------------------------------------
(* Analytics routes: GET /safety-score *)

(* numbers that may have a fractional part are kept in hundredths *)
Scale == 100

Max(a, b) == IF a >= b THEN a ELSE b
Min(a, b) == IF a <= b THEN a ELSE b

(* Math.round of a number given in hundredths: the floor of x + 0.5 *)
MathRound(x) == (2 * x + Scale) \div (2 * Scale)

(* critical * 15 + high * 10 + medium * 5 + low * 2 *)
incidentImpact(bySeverity) ==
    bySeverity["critical"] * 15 + bySeverity["high"] * 10
        + bySeverity["medium"] * 5 + bySeverity["low"] * 2

(* (checklistStats.completionRate / 100) * 20, in hundredths *)
checklistBonus(completionRate) == ((completionRate * Scale) \div 100) * 20

SafetyScore_Unclamped(bySeverity, completionRate) ==
    [score |-> MathRound(100 * Scale - incidentImpact(bySeverity) * Scale
                            + checklistBonus(completionRate)),
     incidentImpact |-> 0 - incidentImpact(bySeverity),
     checklistBonus |-> MathRound(checklistBonus(completionRate))]

(* the score and the factors of the response; score is kept in hundredths
   until it is rounded *)
SafetyScore(bySeverity, completionRate) ==
    LET score == 100 * Scale - incidentImpact(bySeverity) * Scale
                    + checklistBonus(completionRate)
    IN  [score |-> MathRound(Max(0, Min(100 * Scale, score))),
         incidentImpact |-> 0 - incidentImpact(bySeverity),
         checklistBonus |-> MathRound(checklistBonus(completionRate))]

(* the handler, applied to what getIncidentStats and getChecklistStats
   returned to the request for the last thirty days *)
safetyScore ==
    /\ last.op = "request"
    /\ last' = [Did("safetyScore", 0, TRUE) EXCEPT
                    !.before = last.before,
                    !.result = <<SafetyScore(last.before[1].bySeverity, last.before[1].completionRate)>>]
    /\ UNCHANGED <<now, checklists, alerts, inflight, incidents, analytics, executed, reports, running>>

----------------------------------------------------------------------------
(* ChecklistService.getChecklistStats and the scheduled reports *)

(* the percentages k + 0.5 that (completed / total) * 100 misses from
   below in binary floating point: 29 / 200 gives 14.499999999999998,
   57 / 200 gives 28.499999999999996, 113 / 200 gives 56.49999999999999 and
   23 / 40 gives 57.49999999999999 *)
HalfRoundsDown == {14, 28, 56, 57}

(* total > 0 ? Math.round((completed / total) * 100) : 0, with the quotient
   and the product computed in binary floating point: a percentage that is
   not k + 0.5 is far enough from k + 0.5 for the result to be the nearest
   integer, a percentage k + 0.5 gives k + 1 unless the product falls below
   it (HalfRoundsDown) *)
completionRate(completed, total) ==
    IF total > 0
    THEN LET floor == (100 * completed) \div total
             half == 200 * completed = (2 * floor + 1) * total
         IN  IF half THEN (IF floor \in HalfRoundsDown THEN floor ELSE floor + 1)
             ELSE (200 * completed + total) \div (2 * total)
    ELSE 0

(* where createdAt >= startDate and createdAt <= endDate *)
ChecklistsCreatedIn(startDate, endDate) ==
    {id \in 1..Len(checklists) :
        /\ checklists[id].exists
        /\ checklists[id].createdAt >= startDate
        /\ checklists[id].createdAt <= endDate}

(* counts as pending only the checklists whose status is pending *)
ChecklistStats_PendingOnly(startDate, endDate) ==
    LET docs == ChecklistsCreatedIn(startDate, endDate)
        completed == {id \in docs : checklists[id].status = "completed"}
        overdue == {id \in docs : checklists[id].status = "overdue"}
    IN  [total |-> Cardinality(docs),
         completed |-> Cardinality(completed),
         pending |-> Cardinality({id \in docs : checklists[id].status = "pending"}),
         overdue |-> Cardinality(overdue),
         completionRate |-> completionRate(Cardinality(completed), Cardinality(docs)),
         byCategory |->
            [category \in {checklists[id].category : id \in docs} |->
                [total |-> Cardinality({id \in docs : checklists[id].category = category}),
                 completed |-> Cardinality({id \in completed : checklists[id].category = category})]]]

ChecklistStats(startDate, endDate) ==
    LET docs == ChecklistsCreatedIn(startDate, endDate)
        completed == {id \in docs : checklists[id].status = "completed"}
        overdue == {id \in docs : checklists[id].status = "overdue"}
    IN  [total |-> Cardinality(docs),
         completed |-> Cardinality(completed),
         pending |-> Cardinality((docs \ completed) \ overdue),
         overdue |-> Cardinality(overdue),
         completionRate |-> completionRate(Cardinality(completed), Cardinality(docs)),
         byCategory |->
            [category \in {checklists[id].category : id \in docs} |->
                [total |-> Cardinality({id \in docs : checklists[id].category = category}),
                 completed |-> Cardinality({id \in completed : checklists[id].category = category})]]]

(* one query, tallied in memory *)
getChecklistStats(startDate, endDate) ==
    /\ last' = [Did("getChecklistStats", 0, TRUE) EXCEPT
                    !.before = <<[startDate |-> startDate, endDate |-> endDate]>>,
                    !.result = <<ChecklistStats(startDate, endDate)>>]
    /\ UNCHANGED <<now, checklists, alerts, inflight, incidents, analytics, executed, reports, running>>

(* stats.completionRate, computed from the counts stats.completed and
   stats.total of a window *)
statsCompletionRate ==
    /\ last.op = "request"
    /\ last' = [Did("completionRate", 0, TRUE) EXCEPT
                    !.before = last.before,
                    !.result = <<completionRate(last.before[1].completed, last.before[1].total)>>]
    /\ UNCHANGED <<now, checklists, alerts, inflight, incidents, analytics, executed, reports, running>>

(* generateDailyReport, first store call: yesterday and today are the
   starts of the days of the clock, and the incidents created from
   yesterday up to today are queried.  prev is 1 when the run starts right
   after a run of the job that added its report. *)
generateDailyReportIncidents ==
    LET yesterday == StartOfDay(now) - DayLength
        today == StartOfDay(now)
        incidentDocs == {id \in 1..Len(incidents) :
                            /\ incidents[id].exists
                            /\ incidents[id].createdAt >= yesterday
                            /\ incidents[id].createdAt < today}
    IN  /\ running.generateDailyReport.pc = "idle"
        /\ Len(reports.daily_reports) < MaxReports
        /\ running' = [running EXCEPT !.generateDailyReport =
                          [pc |-> "checklists", yesterday |-> yesterday, today |-> today,
                           incidentsReported |-> Cardinality(incidentDocs), report |-> <<>>]]
        /\ last' = [Did("generateDailyReportIncidents", 0, TRUE) EXCEPT
                       !.at = now,
                       !.prev = IF last.op = "generateDailyReportAdd" /\ last.ok THEN 1 ELSE 0 - 1]
        /\ UNCHANGED <<now, checklists, alerts, inflight, incidents, analytics, executed, reports>>

(* the daily report document *)
DailyReport(yesterday, incidentsReported, checklistsCompleted) ==
    [date |-> DayOf(yesterday),
     incidentsReported |-> incidentsReported,
     checklistsCompleted |-> checklistsCompleted,
     generatedAt |-> now]

(* generateDailyReport, second store call: the checklists completed from
   yesterday up to today are queried and the report is built *)
generateDailyReportChecklists ==
    LET run == running.generateDailyReport
        checklistDocs == {id \in 1..Len(checklists) :
                            /\ checklists[id].exists
                            /\ checklists[id].completedAt # NoDate
                            /\ checklists[id].completedAt >= run.yesterday
                            /\ checklists[id].completedAt < run.today}
    IN  /\ run.pc = "checklists"
        /\ running' = [running EXCEPT !.generateDailyReport =
                          [run EXCEPT !.pc = "add",
                                      !.report = <<DailyReport(run.yesterday, run.incidentsReported,
                                                               Cardinality(checklistDocs))>>]]
        /\ last' = [Did("generateDailyReportChecklists", 0, TRUE) EXCEPT
                       !.prev = IF last.op = "generateDailyReportIncidents" THEN last.prev ELSE 0 - 1]
        /\ UNCHANGED <<now, checklists, alerts, inflight, incidents, analytics, executed, reports>>

(* generateDailyReport, third store call: daily_reports.add(report); when
   the store fails the call the catch logs the error *)
generateDailyReportAdd(fail) ==
    LET run == running.generateDailyReport
    IN  /\ run.pc = "add"
        /\ ~fail => Len(reports.daily_reports) < MaxReports
        /\ reports' = IF fail THEN reports
                      ELSE [reports EXCEPT !.daily_reports = Append(@, run.report[1])]
        /\ running' = [running EXCEPT !.generateDailyReport = NoDaily]
        /\ last' = [Did("generateDailyReportAdd", Len(reports'.daily_reports), ~fail) EXCEPT
                       !.prev = IF last.op = "generateDailyReportChecklists" THEN last.prev ELSE 0 - 1]
        /\ UNCHANGED <<now, checklists, alerts, inflight, incidents, analytics, executed>>

(* generateWeeklySummary, first store call: weekAgo is the clock seven days
   back, and the incidents created since are queried.  prev is 1 when the
   run starts right after a run of the job that added its summary. *)
generateWeeklySummaryIncidents ==
    LET weekAgo == now - WeekLength
        incidentDocs == {id \in 1..Len(incidents) :
                            incidents[id].exists /\ incidents[id].createdAt >= weekAgo}
    IN  /\ running.generateWeeklySummary.pc = "idle"
        /\ Len(reports.weekly_summaries) < MaxReports
        /\ Len(alerts) < MaxAlerts
        /\ running' = [running EXCEPT !.generateWeeklySummary =
                          [pc |-> "checklists", weekAgo |-> weekAgo,
                           totalIncidents |-> Cardinality(incidentDocs), summary |-> <<>>]]
        /\ last' = [Did("generateWeeklySummaryIncidents", 0, TRUE) EXCEPT
                       !.at = now,
                       !.prev = IF last.op = "generateWeeklySummaryAlert" THEN 1 ELSE 0 - 1]
        /\ UNCHANGED <<now, checklists, alerts, inflight, incidents, analytics, executed, reports>>

(* the weekly summary document *)
WeeklySummary(totalIncidents, totalChecklists, completedChecklists) ==
    [weekEnding |-> DayOf(now),
     totalIncidents |-> totalIncidents,
     totalChecklists |-> totalChecklists,
     completedChecklists |-> completedChecklists,
     completionRate |-> completionRate(completedChecklists, totalChecklists),
     generatedAt |-> now]

(* generateWeeklySummary, second store call: the checklists created since
   weekAgo are queried and the summary is built *)
generateWeeklySummaryChecklists ==
    LET run == running.generateWeeklySummary
        checklistDocs == {id \in 1..Len(checklists) :
                            checklists[id].exists /\ checklists[id].createdAt >= run.weekAgo}
        completedChecklists == Cardinality({id \in checklistDocs : checklists[id].status = "completed"})
    IN  /\ run.pc = "checklists"
        /\ running' = [running EXCEPT !.generateWeeklySummary =
                          [run EXCEPT !.pc = "add",
                                      !.summary = <<WeeklySummary(run.totalIncidents,
                                                                  Cardinality(checklistDocs),
                                                                  completedChecklists)>>]]
        /\ last' = [Did("generateWeeklySummaryChecklists", 0, TRUE) EXCEPT
                       !.prev = IF last.op = "generateWeeklySummaryIncidents" THEN last.prev ELSE 0 - 1]
        /\ UNCHANGED <<now, checklists, alerts, inflight, incidents, analytics, executed, reports>>

(* generateWeeklySummary, third store call: weekly_summaries.add(summary);
   when the store fails the call the catch logs the error and the run
   ends *)
generateWeeklySummaryAdd(fail) ==
    LET run == running.generateWeeklySummary
    IN  /\ run.pc = "add"
        /\ ~fail => Len(reports.weekly_summaries) < MaxReports
        /\ reports' = IF fail THEN reports
                      ELSE [reports EXCEPT !.weekly_summaries = Append(@, run.summary[1])]
        /\ running' = [running EXCEPT !.generateWeeklySummary =
                          IF fail THEN NoWeekly ELSE [run EXCEPT !.pc = "alert"]]
        /\ last' = [Did("generateWeeklySummaryAdd", Len(reports'.weekly_summaries), ~fail) EXCEPT
                       !.prev = IF last.op = "generateWeeklySummaryChecklists" THEN last.prev ELSE 0 - 1]
        /\ UNCHANGED <<now, checklists, alerts, inflight, incidents, analytics, executed>>

(* generateWeeklySummary, fourth store call: createAlert, the notification;
   when the store fails the call the catch logs the error and the summary
   stays stored *)
generateWeeklySummaryAlert(fail) ==
    /\ running.generateWeeklySummary.pc = "alert"
    /\ ~fail => Len(alerts) < MaxAlerts
    /\ alerts' = IF fail THEN alerts
                 ELSE Append(alerts, createAlert(0, "info", {"all"}, {"admin", "supervisor"}))
    /\ running' = [running EXCEPT !.generateWeeklySummary = NoWeekly]
    /\ last' = [Did("generateWeeklySummaryAlert", 0, ~fail) EXCEPT !.made = IF fail THEN 0 ELSE 1]
    /\ UNCHANGED <<now, checklists, inflight, incidents, analytics, executed, reports>>

----------------------------------------------------------------------------
(* Cloud Functions: the Firestore triggers and the daily analytics *)

updateDailyAnalytics_Overwrite(date, field) ==
    [analytics EXCEPT ![DayOf(date)] = [NoStats EXCEPT ![field] = 1]]

(* analyticsRef.set({field: FieldValue.increment(1)}, {merge: true}) on the
   document of the date: one store call, which adds 1 to the field and
   leaves the other fields of the document as they are *)
updateDailyAnalytics(date, field) ==
    [analytics EXCEPT ![DayOf(date)][field] = @ + 1]

(* one more execution that incremented the counter of the date *)
Executed(date, field) ==
    [executed EXCEPT ![DayOf(date)][field] = @ + 1]

onIncidentCreated_CriticalOnly(r, incident, fail) ==
    LET notify == incident.severity = "critical"
        priority == IF incident.severity = "critical" THEN "emergency" ELSE "urgent"
        count == ~notify /\ ~fail
    IN  /\ running.onIncidentCreated[r].pc = "idle"
        /\ (notify /\ ~fail) => Len(alerts) < MaxAlerts
        /\ count => analytics[DayOf(incident.createdAt)]["incidentsReported"] < MaxCount
        /\ alerts' = IF notify /\ ~fail
                     THEN Append(alerts, createAlert(0, priority, {"all"}, {"admin", "supervisor"}))
                     ELSE alerts
        /\ analytics' = IF count THEN updateDailyAnalytics(incident.createdAt, "incidentsReported")
                        ELSE analytics
        /\ executed' = IF count THEN Executed(incident.createdAt, "incidentsReported") ELSE executed
        /\ running' = IF notify /\ ~fail
                      THEN [running EXCEPT !.onIncidentCreated[r] =
                               [pc |-> "analytics", createdAt |-> incident.createdAt]]
                      ELSE running
        /\ last' = [Did("onIncidentCreated", 0, ~fail) EXCEPT
                       !.made = Len(alerts') - Len(alerts),
                       !.before = <<incident>>]
        /\ UNCHANGED <<now, checklists, inflight, incidents, reports>>

(* onIncidentCreated, run on the snapshot of the created incident, up to
   its first store call: createAlert when the severity is critical or high,
   else updateDailyAnalytics; when the store fails the call the catch logs
   the error and the execution ends.  before holds the incident. *)
onIncidentCreated(r, incident, fail) ==
    LET notify == incident.severity = "critical" \/ incident.severity = "high"
        priority == IF incident.severity = "critical" THEN "emergency" ELSE "urgent"
        count == ~notify /\ ~fail
    IN  /\ running.onIncidentCreated[r].pc = "idle"
        /\ (notify /\ ~fail) => Len(alerts) < MaxAlerts
        /\ count => analytics[DayOf(incident.createdAt)]["incidentsReported"] < MaxCount
        /\ alerts' = IF notify /\ ~fail
                     THEN Append(alerts, createAlert(0, priority, {"all"}, {"admin", "supervisor"}))
                     ELSE alerts
        /\ analytics' = IF count THEN updateDailyAnalytics(incident.createdAt, "incidentsReported")
                        ELSE analytics
        /\ executed' = IF count THEN Executed(incident.createdAt, "incidentsReported") ELSE executed
        /\ running' = IF notify /\ ~fail
                      THEN [running EXCEPT !.onIncidentCreated[r] =
                               [pc |-> "analytics", createdAt |-> incident.createdAt]]
                      ELSE running
        /\ last' = [Did("onIncidentCreated", 0, ~fail) EXCEPT
                       !.made = Len(alerts') - Len(alerts),
                       !.before = <<incident>>]
        /\ UNCHANGED <<now, checklists, inflight, incidents, reports>>

(* onIncidentCreated, the store call after createAlert:
   updateDailyAnalytics; when the store fails the call the catch logs the
   error, the alert stays and the counter is not incremented *)
onIncidentCreatedAnalytics(r, fail) ==
    LET createdAt == running.onIncidentCreated[r].createdAt
    IN  /\ running.onIncidentCreated[r].pc = "analytics"
        /\ ~fail => analytics[DayOf(createdAt)]["incidentsReported"] < MaxCount
        /\ analytics' = IF fail THEN analytics
                        ELSE updateDailyAnalytics(createdAt, "incidentsReported")
        /\ executed' = IF fail THEN executed ELSE Executed(createdAt, "incidentsReported")
        /\ running' = [running EXCEPT !.onIncidentCreated[r] = NoTrigger]
        /\ last' = [Did("onIncidentCreatedAnalytics", 0, ~fail) EXCEPT
                       !.before = <<[createdAt |-> createdAt]>>]
        /\ UNCHANGED <<now, checklists, alerts, inflight, incidents, reports>>

(* onIncidentUpdated, run on the statuses before and after the change *)
onIncidentUpdated(before, after) ==
    LET resolved == before # "resolved" /\ after = "resolved"
    IN  /\ resolved => analytics[DayOf(now)]["incidentsResolved"] < MaxCount
        /\ analytics' = IF resolved THEN updateDailyAnalytics(now, "incidentsResolved") ELSE analytics
        /\ executed' = IF resolved THEN Executed(now, "incidentsResolved") ELSE executed
        /\ last' = Did("onIncidentUpdated", 0, TRUE)
        /\ UNCHANGED <<now, checklists, alerts, inflight, incidents, reports, running>>

(* onChecklistCompleted, run on the statuses before and after the change *)
onChecklistCompleted(before, after) ==
    LET completed == before # "completed" /\ after = "completed"
    IN  /\ completed => analytics[DayOf(now)]["checklistsCompleted"] < MaxCount
        /\ analytics' = IF completed THEN updateDailyAnalytics(now, "checklistsCompleted") ELSE analytics
        /\ executed' = IF completed THEN Executed(now, "checklistsCompleted") ELSE executed
        /\ last' = Did("onChecklistCompleted", 0, TRUE)
        /\ UNCHANGED <<now, checklists, alerts, inflight, incidents, reports, running>>

----------------------------------------------------------------------------
(* Clock *)

Tick ==
    /\ now < MaxTime
    /\ now' = now + 1
    /\ last' = Did("tick", 0, TRUE)
    /\ UNCHANGED <<checklists, alerts, inflight, incidents, analytics, executed, reports, running>>

----------------------------------------------------------------------------
Init ==
    /\ now = 0
    /\ checklists = <<>>
    /\ alerts = <<>>
    /\ inflight = [r \in Requests |-> NoRequest]
    /\ incidents = <<>>
    /\ analytics = [d \in Days |-> NoStats]
    /\ executed = [d \in Days |-> NoStats]
    /\ reports = NoReports
    /\ running = NoRunning
    /\ last = NoObs

(* requests that are served one at a time *)
OneByOne == {1}

(* the overdue sweep: checklists are created, their items are completed by
   one request at a time, and the sweep runs; the store may fail the
   sweep's commit *)
Next ==
    \/ \E n \in ItemIds : createChecklist(n, 1, "general", NoDate)
    \/ \E r \in OneByOne, c \in ChecklistIds, i \in ItemIds, u \in Inspectors :
          updateRead(r, c, i, "complete", u)
    \/ \E r \in OneByOne : updateWrite(r)
    \/ \E r \in OneByOne : updateReturn(r)
    \/ sweepQuery
    \/ \E f \in BOOLEAN : sweepCommit(f)
    \/ sweepAlert(FALSE)
    \/ Tick

Spec == Init /\ [][Next]_vars

(* the items of a checklist: completed, reopened and annotated by one
   request at a time while the clock passes the due date *)
NextItems ==
    \/ \E n \in ItemIds, due \in DueDates : createChecklist(n, due, "general", NoDate)
    \/ \E r \in OneByOne, c \in ChecklistIds, i \in ItemIds,
          p \in {"complete", "uncomplete", "notes"}, u \in Inspectors :
          updateRead(r, c, i, p, u)
    \/ \E r \in OneByOne : updateWrite(r)
    \/ \E r \in OneByOne : updateReturn(r)
    \/ Tick

SpecItems == Init /\ [][NextItems]_vars

(* checklists that are created with or without a completedAt, worked on
   and deleted *)
NextDelete ==
    \/ \E n \in ItemIds, done \in InputCompletedAt : createChecklist(n, 1, "general", done)
    \/ \E r \in OneByOne, c \in ChecklistIds, i \in ItemIds, u \in Inspectors :
          updateRead(r, c, i, "complete", u)
    \/ \E r \in OneByOne : updateWrite(r)
    \/ \E r \in OneByOne : updateReturn(r)
    \/ \E r \in Requests, c \in ChecklistIds : deleteChecklistRead(r, c)
    \/ \E r \in Requests : deleteChecklistWrite(r)
    \/ Tick

SpecDelete == Init /\ [][NextDelete]_vars

(* the alert listing: alerts are created, retired by status and expiry, and listed *)
TargetSectionChoices == {{"all"}, {"A"}}
TargetRoleChoices == {{"all"}, {"supervisor"}}
PriorityChoices == {"info", "warning"}
ExpiryChoices == {NoDate} \cup (1..(MaxTime - 1))
FilterChoices ==
    {[priority |-> "", section |-> "", role |-> ""],
     [priority |-> "warning", section |-> "", role |-> ""],
     [priority |-> "", section |-> "A", role |-> ""],
     [priority |-> "", section |-> "", role |-> "operator"],
     [priority |-> "", section |-> "B", role |-> "supervisor"],
     [priority |-> "warning", section |-> "A", role |-> "supervisor"]}

NextList ==
    \/ \E p \in PriorityChoices, ts \in TargetSectionChoices, tr \in TargetRoleChoices, e \in ExpiryChoices :
          AlertService_createAlert(p, ts, tr, e, "u1")
    \/ \E r \in OneByOne, id \in 1..MaxAlerts, st \in AlertStatus : updateAlertStatusRead(r, id, st)
    \/ \E r \in OneByOne : updateAlertStatusWrite(r)
    \/ \E r \in OneByOne : updateAlertStatusReturn(r)
    \/ \E f \in FilterChoices : getActiveAlerts(f)
    \/ Tick

SpecList == Init /\ [][NextList]_vars

(* acknowledgment, one acknowledge call at a time *)
NextAck ==
    \/ \E u \in Users : createEmergencyAlert(u)
    \/ \E r \in OneByOne, id \in AlertIds, u \in Actors : acknowledgeRead(r, id, u)
    \/ \E r \in OneByOne : acknowledgeWrite(r)
    \/ \E r \in OneByOne, id \in AlertIds, st \in AlertStatus : updateAlertStatusRead(r, id, st)
    \/ \E r \in OneByOne : updateAlertStatusWrite(r)
    \/ \E r \in OneByOne : updateAlertStatusReturn(r)
    \/ \E r \in OneByOne, id \in AlertIds : deleteAlertRead(r, id)
    \/ \E r \in OneByOne : deleteAlertWrite(r)

SpecAck == Init /\ [][NextAck]_vars

(* acknowledgment and deletion by concurrent requests *)
NextAckRace ==
    \/ \E u \in Users : createEmergencyAlert(u)
    \/ \E r \in Requests, id \in AlertIds, u \in Users : acknowledgeRead(r, id, u)
    \/ \E r \in Requests : acknowledgeWrite(r)
    \/ \E r \in Requests, id \in AlertIds : deleteAlertRead(r, id)
    \/ \E r \in Requests : deleteAlertWrite(r)

SpecAckRace == Init /\ [][NextAckRace]_vars

(* the safety score, for every mix of incident counts and completion rate *)
SeverityCounts == [IncidentSeverity -> 0..MaxPerSeverity]
CompletionRates == 0..100

(* a request to GET /safety-score, with the statistics it is served from *)
InitScore ==
    /\ now = 0
    /\ checklists = <<>>
    /\ alerts = <<>>
    /\ inflight = [r \in Requests |-> NoRequest]
    /\ incidents = <<>>
    /\ analytics = [d \in Days |-> NoStats]
    /\ executed = [d \in Days |-> NoStats]
    /\ reports = NoReports
    /\ running = NoRunning
    /\ \E counts \in SeverityCounts, rate \in CompletionRates :
          last = [Did("request", 0, TRUE) EXCEPT
                     !.before = <<[bySeverity |-> counts, completionRate |-> rate]>>]

NextScore == safetyScore

SpecScore == InitScore /\ [][NextScore]_vars

(* the completion rate, for every number of completed checklists out of
   every total up to MaxTotal *)
InitRate ==
    /\ now = 0
    /\ checklists = <<>>
    /\ alerts = <<>>
    /\ inflight = [r \in Requests |-> NoRequest]
    /\ incidents = <<>>
    /\ analytics = [d \in Days |-> NoStats]
    /\ executed = [d \in Days |-> NoStats]
    /\ reports = NoReports
    /\ running = NoRunning
    /\ \E total \in 0..MaxTotal : \E completed \in 0..total :
          last = [Did("request", 0, TRUE) EXCEPT
                     !.before = <<[completed |-> completed, total |-> total]>>]

NextRate == statsCompletionRate

SpecRate == InitRate /\ [][NextRate]_vars

(* the incidents: reported with status reported as the POST / route does,
   resolved, and counted *)
IncidentChoices ==
    {[type |-> "fire", severity |-> "critical", status |-> "reported"],
     [type |-> "near_miss", severity |-> "low", status |-> "reported"]}
UpdateChoices == {[severity |-> "high"], [status |-> "resolved"]}

NextIncident ==
    \/ \E data \in IncidentChoices : createIncident(data)
    \/ \E r \in OneByOne, id \in IncidentIds, status \in IncidentStatus :
          updateIncidentStatus(r, id, status, "u1")
    \/ \E r \in OneByOne : updateIncidentWrite(r)
    \/ \E r \in OneByOne : updateIncidentReturn(r)
    \/ \E startDate \in Times, endDate \in Times : getIncidentStats(startDate, endDate)
    \/ Tick

SpecIncident == Init /\ [][NextIncident]_vars

(* the incidents edited, moved between statuses and deleted by concurrent
   requests *)
NextEdit ==
    \/ createIncident([type |-> "fire", severity |-> "critical", status |-> "reported"])
    \/ \E r \in Requests, id \in IncidentIds, data \in UpdateChoices : updateIncidentRead(r, id, data)
    \/ \E r \in Requests, id \in IncidentIds, status \in {"reported", "resolved"} :
          updateIncidentStatus(r, id, status, "u1")
    \/ \E r \in Requests : updateIncidentWrite(r)
    \/ \E r \in Requests : updateIncidentReturn(r)
    \/ \E r \in Requests, id \in IncidentIds : deleteIncidentRead(r, id)
    \/ \E r \in Requests : deleteIncidentWrite(r)

SpecEdit == Init /\ [][NextEdit]_vars

(* the triggers: executions overlap, and the store may fail any of their
   calls *)
NextTriggers ==
    \/ \E r \in Requests, severity \in IncidentSeverity, createdAt \in 0..now, f \in BOOLEAN :
          onIncidentCreated(r, [severity |-> severity, createdAt |-> createdAt], f)
    \/ \E r \in Requests, f \in BOOLEAN : onIncidentCreatedAnalytics(r, f)
    \/ \E before \in {"investigating", "resolved"}, after \in {"resolved", "closed"} :
          onIncidentUpdated(before, after)
    \/ \E before \in {"in_progress", "completed"}, after \in {"completed", "overdue"} :
          onChecklistCompleted(before, after)
    \/ Tick

SpecTriggers == Init /\ [][NextTriggers]_vars

(* the scheduled reports over the incidents; the store may fail the writes
   of the jobs *)
ReportedChoices ==
    {[type |-> "near_miss", severity |-> "low", status |-> "reported"],
     [type |-> "injury", severity |-> "low", status |-> "reported", resolvedAt |-> 0]}

NextJobs ==
    \/ \E data \in ReportedChoices : createIncident(data)
    \/ generateDailyReportIncidents
    \/ generateDailyReportChecklists
    \/ \E f \in BOOLEAN : generateDailyReportAdd(f)
    \/ generateWeeklySummaryIncidents
    \/ generateWeeklySummaryChecklists
    \/ \E f \in BOOLEAN : generateWeeklySummaryAdd(f)
    \/ \E f \in BOOLEAN : generateWeeklySummaryAlert(f)
    \/ Tick

SpecJobs == Init /\ [][NextJobs]_vars

(* item updates, one at a time, and the trigger that the store runs on a
   checklist update *)
NextFrame ==
    \/ \E n \in ItemIds : createChecklist(n, 1, "general", NoDate)
    \/ \E r \in OneByOne, c \in ChecklistIds, i \in ItemIds,
          p \in {"complete", "uncomplete"}, u \in Inspectors :
          updateRead(r, c, i, p, u)
    \/ \E r \in OneByOne : updateWrite(r)
    \/ \E r \in OneByOne : updateReturn(r)
    \/ \E before \in ChecklistStatus : onChecklistCompleted(before, "completed")
    \/ Tick

SpecFrame == Init /\ [][NextFrame]_vars

(* item updates by concurrent requests on one checklist, its deletion, and
   the sweep running beside them *)
NextRace ==
    \/ Len(checklists) = 0 /\ createChecklist(MaxItems, 1, "general", NoDate)
    \/ \E r \in Requests, i \in ItemIds, p \in {"complete", "uncomplete"}, u \in Inspectors :
          updateRead(r, 1, i, p, u)
    \/ \E r \in Requests : updateWrite(r)
    \/ \E r \in Requests : updateReturn(r)
    \/ \E r \in OneByOne : deleteChecklistRead(r, 1)
    \/ \E r \in OneByOne : deleteChecklistWrite(r)
    \/ sweepQuery
    \/ sweepCommit(FALSE)
    \/ sweepAlert(FALSE)
    \/ Tick

SpecRace == Init /\ [][NextRace]_vars

(* the sweep with either of its two store writes failing *)
NextRecover ==
    \/ \E n \in ItemIds : createChecklist(n, 1, "general", NoDate)
    \/ \E r \in OneByOne, c \in ChecklistIds, i \in ItemIds, u \in Inspectors :
          updateRead(r, c, i, "complete", u)
    \/ \E r \in OneByOne : updateWrite(r)
    \/ \E r \in OneByOne : updateReturn(r)
    \/ sweepQuery
    \/ \E f \in BOOLEAN : sweepCommit(f)
    \/ \E f \in BOOLEAN : sweepAlert(f)
    \/ Tick

SpecRecover == Init /\ [][NextRecover]_vars

(* the statistics over checklists in every status: a checklist of each
   category is created, worked on, swept and counted *)
NextPartition ==
    \/ createChecklist(1, 1, "pre_shift", NoDate)
    \/ createChecklist(MaxItems, 1, "equipment", NoDate)
    \/ \E r \in OneByOne, c \in ChecklistIds, u \in Inspectors : updateRead(r, c, 1, "complete", u)
    \/ \E r \in OneByOne : updateWrite(r)
    \/ \E r \in OneByOne : updateReturn(r)
    \/ sweepQuery
    \/ sweepCommit(FALSE)
    \/ sweepAlert(FALSE)
    \/ \E endDate \in Times : getChecklistStats(0, endDate)
    \/ Tick

SpecPartition == Init /\ [][NextPartition]_vars

(* checklists posted with any status and any item flags, then worked on
   and swept *)
Bodies ==
    {[items |-> items, status |-> status, category |-> "general",
      dueDate |-> 1, completedAt |-> NoDate] :
        items \in UNION {[1..n -> InputItems] : n \in ItemIds},
        status \in ChecklistStatus}

NextCreate ==
    \/ \E body \in Bodies : postChecklist(body)
    \/ \E r \in OneByOne, c \in ChecklistIds, i \in ItemIds, u \in Inspectors :
          updateRead(r, c, i, "complete", u)
    \/ \E r \in OneByOne : updateWrite(r)
    \/ \E r \in OneByOne : updateReturn(r)
    \/ sweepQuery
    \/ sweepCommit(FALSE)
    \/ sweepAlert(FALSE)
    \/ Tick

SpecCreate == Init /\ [][NextCreate]_vars

(* the sweep scheduled again and again beside creations, item updates and
   deletions; the store does not fail the commit for ever *)
NextLive ==
    \/ createChecklist(1, 1, "general", NoDate)
    \/ \E r \in OneByOne, c \in ChecklistIds, p \in {"complete", "notes"}, u \in Inspectors :
          updateRead(r, c, 1, p, u)
    \/ \E r \in OneByOne : updateWrite(r)
    \/ \E r \in OneByOne : updateReturn(r)
    \/ \E r \in OneByOne, c \in ChecklistIds : deleteChecklistRead(r, c)
    \/ \E r \in OneByOne : deleteChecklistWrite(r)
    \/ sweepQuery
    \/ \E f \in BOOLEAN : sweepCommit(f)
    \/ sweepAlert(FALSE)
    \/ Tick

SpecLive ==
    /\ Init /\ [][NextLive]_vars
    /\ WF_vars(sweepQuery)
    /\ SF_vars(sweepCommit(FALSE))
    /\ WF_vars(sweepAlert(FALSE))

----------------------------------------------------------------------------
(* Properties of the checklist lifecycle and of the overdue sweep *)

DoneItems(c) == {i \in 1..Len(c.items) : c.items[i].isCompleted}

(* the derivation rule of the lifecycle: completed, in_progress, overdue, pending *)
DerivedStatus(done, n, dueDate, t) ==
    CASE done = n -> "completed"
      [] 0 < done /\ done < n -> "in_progress"
      [] done = 0 /\ done # n /\ t > dueDate -> "overdue"
      [] done = 0 /\ done # n /\ t <= dueDate -> "pending"

(* C1: the status that an updateChecklistItem call stores is the derivation
   rule evaluated on the items it stores, at the instant at which the call
   read the clock. *)
C1_StatusIsDerived ==
    (last.op = "updateWrite" /\ last.ok) =>
        LET c == checklists[last.id]
        IN  c.status = DerivedStatus(Cardinality(DoneItems(c)), Len(c.items), c.dueDate, last.at)

(* C2: a partially completed checklist past its due date is in_progress, and
   overdue is held only by checklists with no completed item. *)
C2_PartialNeverOverdue ==
    \A id \in 1..Len(checklists) :
        LET c == checklists[id]
            done == Cardinality(DoneItems(c))
        IN  c.exists =>
              /\ (0 < done /\ done < Len(c.items) /\ now > c.dueDate) => c.status = "in_progress"
              /\ c.status = "overdue" => done = 0

(* C3: a run of the sweep that starts right after a run that went through,
   at the same instant and with no other store call since that run's query,
   matches no checklist: it commits no status and creates no alert. *)
C3_SweepIdempotent ==
    (last.op = "sweepQuery" /\ last.prev >= 1) =>
        /\ running.sweep.pc = "idle"
        /\ last.changed = {}
        /\ last.made = 0

C3_Witness ==
    /\ last.op = "sweepQuery"
    /\ last.prev = 2
    /\ Len(alerts) = 1
    /\ alerts[1].count = 2

(* C4: a run of the sweep whose store calls succeed creates one alert if
   its commit set checklists to overdue and none if its query matched
   nothing or the commit failed; the commit writes every matched checklist
   or none; the alert is an active warning for all sections and the roles
   admin and supervisor, and names the number of checklists the commit
   wrote. *)
C4_OneAlertPerSweep ==
    [][/\ last'.op = "sweepQuery" =>
             /\ alerts' = alerts
             /\ checklists' = checklists
             /\ (running'.sweep.pc = "idle") <=> (running'.sweep.matched = {})
       /\ last'.op = "sweepCommit" =>
             /\ alerts' = alerts
             /\ running.sweep.matched # {}
             /\ IF last'.ok
                THEN /\ \A id \in running.sweep.matched : checklists'[id].status = "overdue"
                     /\ running'.sweep = [pc |-> "alert", matched |-> running.sweep.matched]
                ELSE /\ checklists' = checklists
                     /\ running'.sweep.pc = "idle"
       /\ last'.op = "sweepAlert" =>
             LET a == alerts'[Len(alerts')]
             IN  /\ Len(alerts') = Len(alerts) + 1
                 /\ \A k \in 1..Len(alerts) : alerts'[k] = alerts[k]
                 /\ a.priority = "warning"
                 /\ a.status = "active"
                 /\ a.targetSections = {"all"}
                 /\ a.targetRoles = {"admin", "supervisor"}
                 /\ a.count = Cardinality(running.sweep.matched)
                 /\ running'.sweep.pc = "idle"
       /\ last'.op \notin {"sweepQuery", "sweepCommit", "sweepAlert"} =>
             /\ alerts' = alerts
             /\ running'.sweep = running.sweep]_vars

C4_Witness ==
    /\ last.op = "sweepAlert"
    /\ Cardinality(last.changed) = 2
    /\ alerts[Len(alerts)].count = 2
    /\ \A id \in last.changed : checklists[id].status = "overdue"

(* C5: the sweep's query, run at instant now, matches exactly the
   checklists that are pending or in_progress with dueDate < now; its commit
   leaves every matched checklist overdue, leaves the status of every other
   checklist as it was, and changes no items, dueDate or completedAt; no
   other store call of the sweep writes a checklist. *)
C5_SweepEffect ==
    [][/\ last'.op = "sweepQuery" =>
             /\ checklists' = checklists
             /\ running'.sweep.matched =
                   {id \in 1..Len(checklists) :
                       /\ checklists[id].exists
                       /\ checklists[id].status \in {"pending", "in_progress"}
                       /\ checklists[id].dueDate < now}
       /\ (last'.op = "sweepCommit" /\ last'.ok) =>
             /\ Len(checklists') = Len(checklists)
             /\ \A id \in 1..Len(checklists) :
                   LET c == checklists[id]
                       d == checklists'[id]
                   IN  /\ d.exists = c.exists
                       /\ d.items = c.items
                       /\ d.dueDate = c.dueDate
                       /\ d.completedAt = c.completedAt
                       /\ d.status = IF id \in running.sweep.matched THEN "overdue" ELSE c.status
       /\ (last'.op = "sweepAlert" \/ (last'.op = "sweepCommit" /\ ~last'.ok)) =>
             checklists' = checklists]_vars

C5_Witness ==
    /\ last.op = "sweepCommit" /\ last.ok
    /\ last.changed # {}
    /\ \E id \in 1..Len(checklists) :
          /\ id \notin last.changed
          /\ checklists[id].exists
          /\ checklists[id].status # "overdue"

(* C6: with the sweep scheduled again and again, a checklist with no
   completed item whose due date has passed is eventually stored as overdue,
   unless an item is completed or the checklist is deleted first (while the
   alerts collection of the model has room for the alert of a further
   run). *)
ZeroProgressPastDue(id) ==
    /\ ChecklistExists(id)
    /\ DoneItems(checklists[id]) = {}
    /\ checklists[id].dueDate < now

RoomForAlert == Len(alerts) + (IF running.sweep.pc = "idle" THEN 0 ELSE 1) < MaxAlerts

C6_OverdueDetected ==
    \A id \in ChecklistIds :
        (ZeroProgressPastDue(id) /\ RoomForAlert)
            ~> (~ChecklistExists(id)
                \/ DoneItems(checklists[id]) # {}
                \/ checklists[id].status = "overdue")

C6_Witness ==
    /\ last.op = "sweepCommit" /\ last.ok
    /\ \E id \in last.changed :
          /\ DoneItems(checklists[id]) = {}
          /\ checklists[id].status = "overdue"

----------------------------------------------------------------------------
(* Properties of alert acknowledgment and of the alert listing *)

Occurrences(s, u) == Cardinality({i \in 1..Len(s) : s[i] = u})

(* C7: acknowledgeAlert is idempotent per actor: a call that repeats the
   call that ended just before it (same alert, same actor) finds the actor
   in acknowledgedBy and writes nothing, and no actor id is ever in
   acknowledgedBy more than once. *)
C7_AckIdempotent ==
    /\ \A id \in 1..Len(alerts), u \in Actors : Occurrences(alerts[id].acknowledgedBy, u) <= 1
    /\ (last.op = "acknowledgeWrite" /\ last.ok) =>
          Occurrences(alerts[last.id].acknowledgedBy, last.userId) = 1
    /\ (last.op = "acknowledgeRead" /\ last.prev = 1) =>
          /\ \A r \in Requests : inflight[r].pc = "idle"
          /\ Occurrences(last.before, last.userId) = 1
          /\ alerts[last.id].acknowledgedBy = last.before

C7_Witness ==
    /\ last.op = "acknowledgeRead" /\ last.ok
    /\ last.prev = 1
    /\ Len(alerts[last.id].acknowledgedBy) = 2

(* C8: an actor id stored in an alert's acknowledgedBy is still there in
   every later state of that alert, also when acknowledge calls of
   different actors overlap. *)
C8_AckNeverShrinks ==
    [][\A id \in 1..Len(alerts), u \in Users :
          (alerts[id].exists /\ alerts'[id].exists /\ u \in Range(alerts[id].acknowledgedBy))
              => u \in Range(alerts'[id].acknowledgedBy)]_vars

(* C9: among the active, unexpired alerts of the requested priority, a
   listing with a section or a role filter returns exactly those whose target set holds the requested value
   or "all", for each of section and role that is given; an alert for all
   sections and the role supervisor is listed for section B with role
   supervisor and not listed for role operator. *)
C9_ListingMatchesTargets ==
    (last.op = "list" /\ (last.filters.section # "" \/ last.filters.role # "")) =>
        \A id \in 1..Len(alerts) :
            LET a == alerts[id]
                f == last.filters
                retained == /\ a.exists
                            /\ a.status = "active"
                            /\ (f.priority = "" \/ a.priority = f.priority)
                            /\ (a.expiresAt = NoDate \/ a.expiresAt > now)
                sectionOk == f.section = "" \/ f.section \in a.targetSections \/ "all" \in a.targetSections
                roleOk == f.role = "" \/ f.role \in a.targetRoles \/ "all" \in a.targetRoles
            IN  /\ retained => (id \in last.result[1] <=> (sectionOk /\ roleOk))
                /\ (a.targetRoles = {"supervisor"} /\ f.role = "operator") => id \notin last.result[1]

(* C10: every alert the listing returns is active and has no expiresAt or
   an expiresAt after now; an alert whose status is acknowledged or resolved,
   or whose expiresAt is now or earlier, is in no listing, whatever the
   filters. *)
C10_ListingExcludesRetired ==
    last.op = "list" =>
        /\ \A id \in last.result[1] :
              /\ alerts[id].exists
              /\ alerts[id].status = "active"
              /\ (alerts[id].expiresAt = NoDate \/ alerts[id].expiresAt > now)
        /\ \A id \in 1..Len(alerts) :
              (alerts[id].status \in {"acknowledged", "resolved"}
                  \/ (alerts[id].expiresAt # NoDate /\ alerts[id].expiresAt <= now))
                => id \notin last.result[1]

C10_Witness ==
    /\ last.op = "list"
    /\ last.filters = NoFilters
    /\ \E id \in 1..Len(alerts) :
          /\ alerts[id].status = "active"
          /\ alerts[id].expiresAt = now
          /\ id \notin last.result[1]
    /\ \E id \in last.result[1] : alerts[id].expiresAt = NoDate

(* the inputs and the response of the last GET /safety-score *)
ScoreInput == last.before[1]
ScoreOutput == last.result[1]
ExampleMix == [low |-> 3, medium |-> 0, high |-> 2, critical |-> 1]

(* the raw score, in hundredths: 100 - (15 critical + 10 high + 5 medium +
   2 low) + 20 (completionRate / 100) *)
RawScore ==
    100 * (100 - (15 * ScoreInput.bySeverity["critical"] + 10 * ScoreInput.bySeverity["high"]
                    + 5 * ScoreInput.bySeverity["medium"] + 2 * ScoreInput.bySeverity["low"]))
        + 20 * ScoreInput.completionRate

ClampedScore == IF RawScore < 0 THEN 0 ELSE IF RawScore > 10000 THEN 10000 ELSE RawScore

(* C11: the reported safety score is the raw score clamped to [0, 100] and
   rounded to the nearest integer, hence an integer between 0 and 100; for
   1 critical, 2 high, 0 medium, 3 low incidents and a completion rate of
   80 it is 75. *)
C11_ScoreClampedRounded ==
    last.op = "safetyScore" =>
        /\ ScoreOutput.score \in 0..100
        /\ 100 * ScoreOutput.score - ClampedScore < 50
        /\ ClampedScore - 100 * ScoreOutput.score <= 50
        /\ (ScoreInput.bySeverity = ExampleMix /\ ScoreInput.completionRate = 80)
              => ScoreOutput.score = 75

C11_Witness ==
    /\ last.op = "safetyScore"
    /\ ScoreInput.bySeverity = ExampleMix
    /\ ScoreInput.completionRate = 80
    /\ ScoreOutput.score = 75

(* C12: the response reports incidentImpact as minus the weighted incident
   count and checklistBonus as exactly 20 completionRate / 100, neither
   clamped nor rounded, so that the score is the rounding of the clamped
   sum 100 + incidentImpact + checklistBonus. *)
C12_ComponentsUnrounded ==
    last.op = "safetyScore" =>
        /\ 100 * ScoreOutput.incidentImpact = RawScore - 10000 - 20 * ScoreInput.completionRate
        /\ 100 * ScoreOutput.checklistBonus = 20 * ScoreInput.completionRate

(* C13: the completion rate computed from the number of completed
   checklists and the total of a window is 100 * completed / total rounded
   to the nearest integer (a half rounds up, as Math.round does) when
   total > 0, and exactly 0 when total = 0; it is an integer between 0 and
   100. *)
C13_CompletionRate ==
    last.op = "completionRate" =>
        LET completed == last.before[1].completed
            total == last.before[1].total
            rate == last.result[1]
        IN  /\ rate \in 0..100
            /\ total = 0 => rate = 0
            /\ total > 0 => rate = (200 * completed + total) \div (2 * total)

RECURSIVE SumOver(_, _)
SumOver(f, keys) ==
    IF keys = {} THEN 0
    ELSE LET k == CHOOSE x \in keys : TRUE
         IN  f[k] + SumOver(f, keys \ {k})

(* C14: over the closed window [start, end] the incident statistics count
   exactly the incidents with start <= createdAt <= end; bySeverity,
   byStatus and byType each have every value of their enumeration as a key
   (with 0 for a value no incident carries) and each sums to total. *)
C14_IncidentStats ==
    last.op = "getIncidentStats" =>
        LET stats == last.result[1]
            window == last.before[1]
            counted == {id \in 1..Len(incidents) :
                           /\ incidents[id].exists
                           /\ window.startDate <= incidents[id].createdAt
                           /\ incidents[id].createdAt <= window.endDate}
        IN  /\ stats.total = Cardinality(counted)
            /\ DOMAIN stats.bySeverity = {"low", "medium", "high", "critical"}
            /\ DOMAIN stats.byStatus = {"reported", "investigating", "resolved", "closed"}
            /\ DOMAIN stats.byType = {"near_miss", "injury", "equipment_damage",
                                      "environmental", "fire", "structural", "other"}
            /\ SumOver(stats.bySeverity, DOMAIN stats.bySeverity) = stats.total
            /\ SumOver(stats.byStatus, DOMAIN stats.byStatus) = stats.total
            /\ SumOver(stats.byType, DOMAIN stats.byType) = stats.total
            /\ \A v \in DOMAIN stats.bySeverity :
                  (\A id \in counted : incidents[id].severity # v) => stats.bySeverity[v] = 0

C14_Witness ==
    /\ last.op = "getIncidentStats"
    /\ last.before[1].startDate < last.before[1].endDate
    /\ last.result[1].total = 2
    /\ \E id \in 1..Len(incidents) : incidents[id].exists /\ incidents[id].createdAt = last.before[1].endDate
    /\ \E id \in 1..Len(incidents) : incidents[id].exists /\ incidents[id].createdAt = last.before[1].startDate
    /\ last.result[1].byStatus["resolved"] = 1
    /\ last.result[1].byType["injury"] = 0

(* C20: in every state reached by updateIncidentStatus and updateIncident
   calls, an incident has a resolvedAt only if its status is resolved or
   closed: an incident that is reported or investigating has no resolvedAt,
   and an incident that is resolved always has one. *)
C20_ResolvedAtIffResolved ==
    \A id \in 1..Len(incidents) :
        incidents[id].exists =>
            /\ incidents[id].status \in {"reported", "investigating"} => incidents[id].resolvedAt = NoDate
            /\ incidents[id].status = "resolved" => incidents[id].resolvedAt # NoDate

(* C15: whatever the order in which trigger executions write the analytics
   document of a date, each of its counters equals the number of executions
   that incremented it: no increment is lost and the increment of one
   counter leaves the other counters as they are. *)
C15_CountersAdditive ==
    \A d \in Days : \A f \in {"incidentsReported", "incidentsResolved", "checklistsCompleted"} :
        analytics[d][f] = executed[d][f]

C15_Witness ==
    /\ last.op = "onChecklistCompleted"
    /\ executed[0]["incidentsReported"] = 2
    /\ executed[0]["incidentsResolved"] = 1
    /\ executed[0]["checklistsCompleted"] = 1
    /\ analytics[0]["incidentsReported"] = 2

(* C16: a run of the daily report or of the weekly summary that starts
   right after a run of the same job that stored its record, at the same
   instant and with no other store call in between, leaves the persisted
   report records as the first run left them; at most an alert is added. *)
C16_ReportOncePerPeriod ==
    [][/\ (last'.op = "generateDailyReportAdd" /\ last'.prev = 1) => reports' = reports
       /\ (last'.op = "generateWeeklySummaryAdd" /\ last'.prev = 1) => reports' = reports]_vars

(* C17: a call of updateChecklistItem that names a checklist that does not
   exist, or an item that the checklist does not have, fails (it returns
   null, which the route answers with 404) after its read and writes
   nothing: no write of the call is left to come and every checklist is as
   it was before the call. *)
C17_NotFoundNoWrite ==
    [][last'.op = "updateRead" =>
          LET c == last'.id
              i == last'.before[1].itemId
          IN  (~ChecklistExists(c) \/ i > Len(checklists[c].items)) =>
                  /\ ~last'.ok
                  /\ running' = running
                  /\ checklists' = checklists
                  /\ alerts' = alerts]_vars

C17_Witness ==
    /\ last.op = "updateRead"
    /\ ~last.ok
    /\ ChecklistExists(last.id)
    /\ checklists[last.id].status = "completed"
    /\ now > checklists[last.id].completedAt
    /\ \A r \in Requests : running.update[r].pc = "idle"

(* C18: a patch that sets completion to true stamps the item with
   completedAt = now and completedBy = the actor; a patch that sets it to
   false clears both; a patch that does not mention completion (notes only)
   changes neither the item's completion flag nor its completion stamps. *)
C18_StampsFollowPatch ==
    [][(last'.op = "updateRead" /\ last'.ok) =>
          \A r \in Requests :
              running'.update[r] # running.update[r] =>
                  LET c == last'.id
                      i == last'.before[1].itemId
                      p == last'.before[1].patch
                      u == last'.userId
                      old == checklists[c].items[i]
                      new == running'.update[r].items[i]
                  IN  /\ p = "complete" =>
                            new.isCompleted /\ new.completedAt = now /\ new.completedBy = u
                      /\ p = "uncomplete" =>
                            ~new.isCompleted /\ new.completedAt = NoDate /\ new.completedBy = NoUser
                      /\ p = "notes" =>
                            /\ new.isCompleted = old.isCompleted
                            /\ new.completedAt = old.completedAt
                            /\ new.completedBy = old.completedBy]_vars

(* C19: in every state reached by creations, item updates and sweeps, a
   checklist has a completedAt exactly if its status is completed. *)
C19_CompletedAtIffCompleted ==
    \A id \in 1..Len(checklists) :
        checklists[id].exists =>
            (checklists[id].completedAt # NoDate <=> checklists[id].status = "completed")

(* C21: a call of acknowledge with an empty actor id fails and leaves the
   alert's acknowledgedBy as it was; a call on an alert that does not exist
   fails and writes nothing. *)
C21_AckRejectsInvalid ==
    [][last'.op = "acknowledgeRead" =>
          ((last'.userId = "" \/ ~AlertExists(last'.id))
              => (~last'.ok /\ inflight' = inflight /\ alerts' = alerts))]_vars

(* C22: the write of an item update that no other update overlaps writes
   only the addressed checklist, and in it only the target item, status and
   completedAt: every other item and every other checklist is as before;
   neither a store call of the update nor the trigger that the store runs
   on it creates an alert or writes a checklist otherwise, even when the
   update completes the checklist. *)
C22_UpdateFrame ==
    [][/\ last'.op \in {"onChecklistCompleted", "updateRead", "updateReturn"} =>
             (alerts' = alerts /\ checklists' = checklists)
       /\ last'.op = "updateWrite" =>
             LET c == last'.id
                 i == last'.prev
             IN  /\ alerts' = alerts
                 /\ Len(checklists') = Len(checklists)
                 /\ \A other \in 1..Len(checklists) :
                       other # c => checklists'[other] = checklists[other]
                 /\ ChecklistExists(c) =>
                       /\ Len(checklists'[c].items) = Len(checklists[c].items)
                       /\ \A j \in 1..Len(checklists[c].items) :
                             j # i => checklists'[c].items[j] = checklists[c].items[j]
                       /\ checklists'[c].dueDate = checklists[c].dueDate
                       /\ checklists'[c].createdAt = checklists[c].createdAt
                       /\ checklists'[c].category = checklists[c].category
                       /\ checklists'[c].exists]_vars

C22_Witness ==
    /\ last.op = "updateWrite" /\ last.ok
    /\ Len(checklists) = 2
    /\ Len(checklists[last.id].items) = 2
    /\ checklists[last.id].status = "completed"
    /\ \E other \in 1..Len(checklists) : other # last.id /\ checklists[other].status = "in_progress"
    /\ alerts = <<>>

(* C23: run on a created incident with the store failing no call,
   onIncidentCreated first creates one alert if the severity is critical or
   high and none otherwise (priority emergency for critical, urgent for
   high; for all sections and the roles admin and supervisor), and then,
   alert or not, adds one to incidentsReported of the incident's creation
   date and to no other counter. *)
Incremented(createdAt) ==
    \A d \in Days : \A f \in DOMAIN analytics[d] :
        analytics'[d][f] = analytics[d][f]
            + (IF d = createdAt \div 2 /\ f = "incidentsReported" THEN 1 ELSE 0)

C23_IncidentNotifier ==
    [][/\ (last'.op = "onIncidentCreated" /\ last'.ok) =>
             LET incident == last'.before[1]
                 notify == incident.severity \in {"critical", "high"}
             IN  /\ Len(alerts') = Len(alerts) + (IF notify THEN 1 ELSE 0)
                 /\ \A k \in 1..Len(alerts) : alerts'[k] = alerts[k]
                 /\ notify =>
                       LET a == alerts'[Len(alerts')]
                       IN  /\ a.priority = (IF incident.severity = "critical" THEN "emergency" ELSE "urgent")
                           /\ a.status = "active"
                           /\ a.targetSections = {"all"}
                           /\ a.targetRoles = {"admin", "supervisor"}
                           /\ analytics' = analytics
                           /\ \E r \in Requests :
                                 /\ running.onIncidentCreated[r].pc = "idle"
                                 /\ running'.onIncidentCreated[r] =
                                        [pc |-> "analytics", createdAt |-> incident.createdAt]
                 /\ ~notify => (Incremented(incident.createdAt) /\ running' = running)
       /\ (last'.op = "onIncidentCreatedAnalytics" /\ last'.ok) =>
             /\ alerts' = alerts
             /\ Incremented(last'.before[1].createdAt)]_vars

C23_Witness ==
    /\ last.op = "onIncidentCreatedAnalytics" /\ last.ok
    /\ Len(alerts) = 2
    /\ alerts[1].priority = "urgent"
    /\ alerts[2].priority = "emergency"
    /\ analytics[0]["incidentsReported"] = 1
    /\ analytics[1]["incidentsReported"] = 1
    /\ \A r \in Requests : running.onIncidentCreated[r].pc = "idle"

(* C24: the write of an item update stores the whole items array computed
   from the request's own read, so that of two requests on different items
   of one checklist that both read before either writes, only the change of
   the one that writes last is stored. *)
C24_WholeArrayWritten ==
    [][last'.op = "updateWrite" =>
          \A r \in Requests :
              (updateWrite(r) /\ ChecklistExists(running.update[r].checklistId)) =>
                  checklists'[running.update[r].checklistId].items = running.update[r].items]_vars

C24_Witness ==
    /\ last.op = "updateWrite" /\ last.ok
    /\ \A r \in Requests : running.update[r].pc # "write"
    /\ last.prev = 2
    /\ last.before[1].isCompleted
    /\ ~last.before[2].isCompleted
    /\ ~checklists[last.id].items[1].isCompleted
    /\ checklists[last.id].items[2].isCompleted

(* C26: however an overdue sweep (query, then batch write) and item updates
   (read, then write) interleave, once they have all finished no checklist
   has all of its items completed and the stored status overdue. *)
C26_NoCompletedOverdue ==
    ((\A r \in Requests : running.update[r].pc = "idle") /\ running.sweep.pc = "idle") =>
        \A id \in 1..Len(checklists) :
            checklists[id].exists =>
                ~(/\ completedCount(checklists[id].items) = Len(checklists[id].items)
                  /\ checklists[id].status = "overdue")

(* C25: a run of the sweep that goes through right after a run in which the
   batch commit or the alert write failed, with no other store call in
   between, leaves what a single successful run leaves: no checklist is
   left for the query to match, and if the two runs together set checklists
   to overdue, a warning alert was created that reports them. *)
C25_SweepRecovers ==
    /\ (last.op = "sweepQuery" /\ last.before # <<>> /\ running.sweep.pc = "idle") =>
          (last.before[1].changed # {} => last.before[1].made = 1)
    /\ (last.op = "sweepAlert" /\ last.ok /\ last.before # <<>>) =>
          /\ \A id \in 1..Len(checklists) :
                ~(/\ checklists[id].exists
                  /\ checklists[id].status \in {"pending", "in_progress"}
                  /\ checklists[id].dueDate < now)
          /\ alerts[Len(alerts)].priority = "warning"
          /\ alerts[Len(alerts)].count = Cardinality(last.before[1].changed \cup last.changed)

(* C27: in every reachable state every item of every checklist has its
   completion time and its completing user set exactly when it is
   completed. *)
C27_ItemStampsIffCompleted ==
    \A id \in 1..Len(checklists) :
        checklists[id].exists =>
            \A i \in 1..Len(checklists[id].items) :
                LET item == checklists[id].items[i]
                IN  /\ (item.completedAt # NoDate) <=> item.isCompleted
                    /\ (item.completedBy # NoUser) <=> item.isCompleted

(* C28: the write of an item update applied to a checklist whose status is
   completed, and which leaves the status completed, does not change the
   checklist's completion time. *)
C28_CompletedAtStable ==
    [][(last'.op = "updateWrite" /\ last'.ok) =>
          LET id == last'.id
          IN  (checklists[id].status = "completed" /\ checklists'[id].status = "completed") =>
                  checklists'[id].completedAt = checklists[id].completedAt]_vars

(* C29: the checklist statistics of a window partition its checklists by
   status: completed + pending + overdue = total, completed and overdue
   count the checklists with that status, pending counts the checklists
   whose status is pending or in_progress; every byCategory entry has
   completed <= total and the byCategory totals sum to total. *)
C29_StatsPartition ==
    last.op = "getChecklistStats" =>
        LET stats == last.result[1]
            window == last.before[1]
            docs == {id \in 1..Len(checklists) :
                        /\ checklists[id].exists
                        /\ window.startDate <= checklists[id].createdAt
                        /\ checklists[id].createdAt <= window.endDate}
            WithStatus(statuses) == Cardinality({id \in docs : checklists[id].status \in statuses})
            totals == [category \in DOMAIN stats.byCategory |-> stats.byCategory[category].total]
        IN  /\ stats.total = Cardinality(docs)
            /\ stats.completed + stats.pending + stats.overdue = stats.total
            /\ stats.completed = WithStatus({"completed"})
            /\ stats.overdue = WithStatus({"overdue"})
            /\ stats.pending = WithStatus({"pending", "in_progress"})
            /\ \A category \in DOMAIN stats.byCategory :
                  stats.byCategory[category].completed <= stats.byCategory[category].total
            /\ SumOver(totals, DOMAIN totals) = stats.total

C29_Witness ==
    /\ last.op = "getChecklistStats"
    /\ last.result[1].total = 2
    /\ last.result[1].pending = 1
    /\ last.result[1].overdue = 1
    /\ Cardinality(DOMAIN last.result[1].byCategory) = 2
    /\ \E id \in 1..Len(checklists) :
          /\ checklists[id].status = "in_progress"
          /\ checklists[id].createdAt >= last.before[1].startDate
          /\ checklists[id].createdAt <= last.before[1].endDate

(* C30: right after a checklist is created its status is pending and none
   of its items is completed, whatever status, item flags and dueDate the
   input carried; a checklist leaves pending only by the write of an item
   update or by the commit of the overdue sweep. *)
C30_CreatedPending ==
    [][/\ last'.op = "create" =>
            /\ checklists'[last'.id].status = "pending"
            /\ \A i \in 1..Len(checklists'[last'.id].items) :
                  ~checklists'[last'.id].items[i].isCompleted
       /\ \A id \in 1..Len(checklists) :
            (/\ checklists[id].exists
             /\ checklists[id].status = "pending"
             /\ checklists'[id].status # "pending") =>
                last'.op \in {"updateWrite", "sweepCommit"}]_vars

C30_Witness ==
    /\ last.op = "create"
    /\ last.before # <<>>
    /\ last.before[1].status = "completed"
    /\ \A i \in 1..Len(last.before[1].items) : last.before[1].items[i].isCompleted
    /\ last.before[1].dueDate < now
    /\ checklists[last.id].status = "pending"
    /\ Len(checklists[last.id].items) = MaxItems

====
